---- MODULE Spec2Model ----
(***************************************************************************)
(* Schema comparison tools of the repository:                              *)
(*   scripts/compare-db-schemas.py  (get_full_schema, compare_columns,     *)
(*                                   compare_schemas, main)                *)
(*   scripts/deep-schema-compare.py (get_all_columns_detailed, main)       *)
(*                                                                         *)
(* Two PostgreSQL catalogs (UAT = left, PROD = right) drift apart by DDL   *)
(* statements; then one of the tools introspects both and reports the      *)
(* differences on its standard output.  The report is the sequence of      *)
(* difference lines the tool prints, each line kept as a record of what    *)
(* the line carries.                                                       *)
(*                                                                         *)
(* Python values: None is the empty tuple; a string that the code only     *)
(* compares for equality is a TLA+ string; a column default expression is  *)
(* a tuple of characters so that str() and text normalisation are          *)
(* computed; an optional integer is <<>> or <<n>>.                         *)
(***************************************************************************)
EXTENDS Integers, Sequences, FiniteSets, TLC

VARIABLES
    db,           \* the two catalogs: db.UAT, db.PROD
    edits,        \* number of DDL statements applied so far
    pc,           \* position of the running tool
    uat_schema,   \* compare-db-schemas main: uat_schema
    prod_schema,  \* compare-db-schemas main: prod_schema
    uat_cols,     \* deep-schema-compare main: uat_cols
    prod_cols,    \* deep-schema-compare main: prod_cols
    report,       \* the difference lines printed so far, in print order
    summary,      \* deep-schema-compare main: the lines of its closing summary
    locals        \* the local variables of the other programs' main functions

vars == <<db, edits, pc, uat_schema, prod_schema, uat_cols, prod_cols, report,
          summary, locals>>

\* Bound of the model: DDL statements applied to the two catalogs together.
MaxEdits == 2

\* The longest .env.local, in characters.
MaxFileLen == 4

\* The most rows the dependent tables have together.
MaxDependentRows == 1

Sides == {"UAT", "PROD"}

None == <<>>

Range(s) == {s[i] : i \in DOMAIN s}

\* All enumerations of a finite set: the orders in which Python may iterate a set
\* of strings (the hash seed differs from process to process).
RECURSIVE Perms(_)
Perms(S) ==
    IF S = {} THEN {<<>>}
    ELSE UNION {{<<x>> \o p : p \in Perms(S \ {x})} : x \in S}

\* Every name of the model in lexicographic (code point) order: what sorted() and
\* ORDER BY use.
NameOrder ==
    <<"chk_users_email", "email", "fk_users_org", "fk_users_ref", "fn_touch", "id", "idx_a",
      "idx_b", "name", "posts", "posts_pkey", "role", "status", "trg_audit",
      "users", "users_id_seq", "users_pkey", "v_active", "verified">>

Sorted(S) ==
    LET In(x) == x \in S IN SelectSeq(NameOrder, In)

Remove(f, k) == [x \in DOMAIN f \ {k} |-> f[x]]

(***************************************************************************)
(* The catalogs                                                            *)
(***************************************************************************)

\* Column types: what information_schema.columns shows for each.
Types ==
    [uuid      |-> [data_type |-> "uuid", udt_name |-> "uuid",
                    character_maximum_length |-> None,
                    numeric_precision |-> None, numeric_scale |-> None],
     bool      |-> [data_type |-> "boolean", udt_name |-> "bool",
                    character_maximum_length |-> None,
                    numeric_precision |-> None, numeric_scale |-> None],
     text      |-> [data_type |-> "text", udt_name |-> "text",
                    character_maximum_length |-> None,
                    numeric_precision |-> None, numeric_scale |-> None],
     varchar50 |-> [data_type |-> "character varying", udt_name |-> "varchar",
                    character_maximum_length |-> <<50>>,
                    numeric_precision |-> None, numeric_scale |-> None],
     varchar100 |-> [data_type |-> "character varying", udt_name |-> "varchar",
                    character_maximum_length |-> <<100>>,
                    numeric_precision |-> None, numeric_scale |-> None],
     arr_text  |-> [data_type |-> "ARRAY", udt_name |-> "_text",
                    character_maximum_length |-> None,
                    numeric_precision |-> None, numeric_scale |-> None],
     arr_int4  |-> [data_type |-> "ARRAY", udt_name |-> "_int4",
                    character_maximum_length |-> None,
                    numeric_precision |-> None, numeric_scale |-> None]]

\* Types a text-like column can be altered to.
AlterTypes == {"text", "varchar50", "varchar100", "arr_text", "arr_int4"}

MkColumn(name, ty, nullable, default) ==
    [column_name |-> name,
     data_type |-> Types[ty].data_type,
     udt_name |-> Types[ty].udt_name,
     character_maximum_length |-> Types[ty].character_maximum_length,
     numeric_precision |-> Types[ty].numeric_precision,
     numeric_scale |-> Types[ty].numeric_scale,
     is_nullable |-> nullable,
     column_default |-> default]

\* Default expressions as pg_get_expr shows them, character by character:
\* 'x', 'X', 'x ' and 'y'.
DefaultExprs ==
    {<<"'", "x", "'">>, <<"'", "X", "'">>, <<"'", "x", " ", "'">>,
     <<"'", "y", "'">>}

\* Columns ALTER TABLE .. ADD COLUMN can add.
NewColumns ==
    [verified |-> MkColumn("verified", "bool", "NO", <<"f", "a", "l", "s", "e">>),
     name     |-> MkColumn("name", "varchar50", "YES", None)]

MkIndex(name, method, unique, primary, cols) ==
    [index_name |-> name, index_type |-> method, is_unique |-> unique,
     is_primary |-> primary, columns |-> cols]

\* Index definitions CREATE INDEX can create: (access method, unique, columns).
IndexDefs ==
    {<<"btree", TRUE, <<"email">>>>,
     <<"hash", FALSE, <<"email">>>>}

IndexNames == {"idx_a", "idx_b"}

\* Primary keys ALTER TABLE .. ADD PRIMARY KEY can declare, in key order.
PrimaryKeyDefs == {<<"id">>, <<"id", "email">>, <<"email", "id">>}

PkeyName(t) == IF t = "users" THEN "users_pkey" ELSE "posts_pkey"

\* CREATE TABLE t (id uuid NOT NULL PRIMARY KEY, email text NULL)
NewTable(t) ==
    [columns |-> <<MkColumn("id", "uuid", "NO", None),
                   MkColumn("email", "text", "YES", None)>>,
     indexes |-> (PkeyName(t) :> MkIndex(PkeyName(t), "btree", TRUE, TRUE, <<"id">>))]

TableNames == {"users", "posts"}

\* Constraints ALTER TABLE .. ADD CONSTRAINT can add: the row of
\* information_schema.table_constraints joined as get_all_constraints joins it.
\* fk_users_org and fk_users_org_self are two definitions of one constraint name,
\* with different referenced tables; fk_users_ref is another name for the
\* definition of fk_users_org_self.
ConstraintRows ==
    [chk_users_email |->
        [table_name |-> "users", constraint_name |-> "chk_users_email",
         constraint_type |-> "CHECK", column_name |-> "",
         foreign_table_name |-> "users", foreign_column_name |-> "email",
         check_clause |-> "((email <> ''::text))"],
     fk_users_org |->
        [table_name |-> "users", constraint_name |-> "fk_users_org",
         constraint_type |-> "FOREIGN KEY", column_name |-> "id",
         foreign_table_name |-> "posts", foreign_column_name |-> "id",
         check_clause |-> ""],
     fk_users_org_self |->
        [table_name |-> "users", constraint_name |-> "fk_users_org",
         constraint_type |-> "FOREIGN KEY", column_name |-> "id",
         foreign_table_name |-> "users", foreign_column_name |-> "id",
         check_clause |-> ""],
     fk_users_ref |->
        [table_name |-> "users", constraint_name |-> "fk_users_ref",
         constraint_type |-> "FOREIGN KEY", column_name |-> "id",
         foreign_table_name |-> "users", foreign_column_name |-> "id",
         check_clause |-> ""]]

\* Objects of the other categories that CREATE can add: the rows the catalog
\* query of the category returns for each (a trigger on two events has two rows,
\* an overloaded function one row per overload).
OtherObjects ==
    [sequences |->
        {{[sequence_name |-> "users_id_seq", data_type |-> "bigint"]}},
     views |->
        {{[table_name |-> "v_active", view_definition |-> "SELECT id FROM users"]}},
     functions |->
        {{[function_name |-> "fn_touch", arguments |-> "", return_type |-> "trigger"]},
         {[function_name |-> "fn_touch", arguments |-> "n integer", return_type |-> "void"]}},
     triggers |->
        {{[trigger_name |-> "trg_audit", event_manipulation |-> "INSERT",
           event_object_table |-> "users"],
          [trigger_name |-> "trg_audit", event_manipulation |-> "UPDATE",
           event_object_table |-> "users"]}}]

OtherCategories == DOMAIN OtherObjects

\* CREATE TYPE role AS ENUM ('admin', 'member')
NewEnums == [role |-> <<"admin", "member">>]

BaseCatalog ==
    [tables      |-> ("users" :> NewTable("users")),
     enums       |-> ("status" :> <<"active", "done">>),
     constraints |-> {ConstraintRows["chk_users_email"]},
     sequences   |-> {},
     views       |-> {},
     functions   |-> {},
     triggers    |-> {}]

NoSchema == [tables |-> <<>>, enums |-> <<>>]

ColumnNames(tbl) == {tbl.columns[i].column_name : i \in DOMAIN tbl.columns}

ColumnIndex(tbl, c) == CHOOSE i \in DOMAIN tbl.columns : tbl.columns[i].column_name = c

PrimaryKeyOf(tbl) ==
    LET P == {n \in DOMAIN tbl.indexes : tbl.indexes[n].is_primary}
    IN IF P = {} THEN <<>> ELSE tbl.indexes[CHOOSE n \in P : TRUE].columns

IndexNamesIn(cat) ==
    UNION {DOMAIN cat.tables[t].indexes : t \in DOMAIN cat.tables}

(***************************************************************************)
(* DDL statements: how the two catalogs come to differ before a tool runs   *)
(***************************************************************************)

\* The positions of get_full_schema between two of its queries.
BuildingPcs == {"building_columns", "building_keys"}

\* DDL is applied before a tool starts, or by another session between two
\* queries of get_full_schema: the connection is READ COMMITTED, each query
\* sees what was committed when it started.
Editable ==
    /\ pc = "start" \/ pc \in BuildingPcs
    /\ edits < MaxEdits

\* One DDL statement turns catalog s into cat.
Apply(s, cat) ==
    /\ db' = [db EXCEPT ![s] = cat]
    /\ edits' = edits + 1
    /\ UNCHANGED <<pc, uat_schema, prod_schema, uat_cols, prod_cols, report, summary, locals>>

WithTable(cat, t, tbl) == [cat EXCEPT !.tables = (t :> tbl) @@ @]

CreateTable(s, t) ==
    /\ Editable
    /\ t \notin DOMAIN db[s].tables
    /\ Apply(s, WithTable(db[s], t, NewTable(t)))

\* DROP TABLE t CASCADE: its constraints, the foreign keys that reference it and
\* its triggers go with it.
DropTable(s, t) ==
    /\ Editable
    /\ t \in DOMAIN db[s].tables
    /\ Apply(s, [db[s] EXCEPT
            !.tables = Remove(@, t),
            !.constraints = {r \in @ : r.table_name # t /\ r.foreign_table_name # t},
            !.triggers = {r \in @ : r.event_object_table # t}])

AddColumn(s, t, c) ==
    /\ Editable
    /\ t \in DOMAIN db[s].tables
    /\ c \in DOMAIN NewColumns \ ColumnNames(db[s].tables[t])
    /\ Apply(s, WithTable(db[s], t,
            [db[s].tables[t] EXCEPT !.columns = Append(@, NewColumns[c])]))

\* ALTER TABLE t DROP COLUMN c CASCADE: the indexes and constraints over c go too.
DropColumn(s, t, c) ==
    /\ Editable
    /\ t \in DOMAIN db[s].tables
    /\ c \in ColumnNames(db[s].tables[t])
    /\ LET tbl == db[s].tables[t]
           Keep(col) == col.column_name # c
           idx == {n \in DOMAIN tbl.indexes : c \notin Range(tbl.indexes[n].columns)}
       IN Apply(s, [WithTable(db[s], t,
                        [columns |-> SelectSeq(tbl.columns, Keep),
                         indexes |-> [n \in idx |-> tbl.indexes[n]]])
                    EXCEPT !.constraints =
                        {r \in @ : ~ \/ (r.table_name = t /\ r.column_name = c)
                                     \/ (r.foreign_table_name = t
                                            /\ r.foreign_column_name = c)}])

\* ALTER TABLE t ALTER COLUMN c SET NOT NULL / DROP NOT NULL
AlterNullable(s, t, c) ==
    /\ Editable
    /\ t \in DOMAIN db[s].tables
    /\ c \in ColumnNames(db[s].tables[t])
    /\ LET tbl == db[s].tables[t]
           i == ColumnIndex(tbl, c)
       IN /\ tbl.columns[i].is_nullable = "NO" => c \notin Range(PrimaryKeyOf(tbl))
          /\ Apply(s, WithTable(db[s], t,
                [tbl EXCEPT !.columns[i].is_nullable =
                                IF @ = "YES" THEN "NO" ELSE "YES"]))

\* ALTER TABLE t ALTER COLUMN c TYPE ty, on a text-like column without default.
AlterColumnType(s, t, c, ty) ==
    /\ Editable
    /\ t \in DOMAIN db[s].tables
    /\ c \in ColumnNames(db[s].tables[t])
    /\ ty \in AlterTypes
    /\ LET tbl == db[s].tables[t]
           i == ColumnIndex(tbl, c)
           old == tbl.columns[i]
           new == MkColumn(c, ty, old.is_nullable, old.column_default)
       IN /\ old.udt_name \notin {"uuid", "bool"}
          /\ old.column_default = None
          /\ new # old
          /\ Apply(s, WithTable(db[s], t, [tbl EXCEPT !.columns[i] = new]))

\* ALTER TABLE t ALTER COLUMN c SET DEFAULT d / DROP DEFAULT, on a string column.
SetDefault(s, t, c, d) ==
    /\ Editable
    /\ t \in DOMAIN db[s].tables
    /\ c \in ColumnNames(db[s].tables[t])
    /\ d \in DefaultExprs \cup {None}
    /\ LET tbl == db[s].tables[t]
           i == ColumnIndex(tbl, c)
       IN /\ tbl.columns[i].udt_name \in {"text", "varchar"}
          /\ tbl.columns[i].column_default # d
          /\ Apply(s, WithTable(db[s], t, [tbl EXCEPT !.columns[i].column_default = d]))

\* ALTER TABLE t DROP CONSTRAINT t_pkey, ADD PRIMARY KEY (pk): the key columns
\* become NOT NULL.
SetPrimaryKey(s, t, pk) ==
    /\ Editable
    /\ t \in DOMAIN db[s].tables
    /\ pk \in PrimaryKeyDefs
    /\ LET tbl == db[s].tables[t]
           rest == {n \in DOMAIN tbl.indexes : ~tbl.indexes[n].is_primary}
       IN /\ Range(pk) \subseteq ColumnNames(tbl)
          /\ pk # PrimaryKeyOf(tbl)
          /\ Apply(s, WithTable(db[s], t,
                [columns |-> [i \in DOMAIN tbl.columns |->
                                IF tbl.columns[i].column_name \in Range(pk)
                                THEN [tbl.columns[i] EXCEPT !.is_nullable = "NO"]
                                ELSE tbl.columns[i]],
                 indexes |-> (PkeyName(t) :> MkIndex(PkeyName(t), "btree", TRUE, TRUE, pk))
                                @@ [n \in rest |-> tbl.indexes[n]]]))

\* ALTER TABLE t ADD COLUMN c ..., DROP CONSTRAINT t_pkey, ADD PRIMARY KEY (c)
AddKeyColumn(s, t, c) ==
    /\ Editable
    /\ t \in DOMAIN db[s].tables
    /\ c \in DOMAIN NewColumns \ ColumnNames(db[s].tables[t])
    /\ LET tbl == db[s].tables[t]
           rest == {n \in DOMAIN tbl.indexes : ~tbl.indexes[n].is_primary}
       IN Apply(s, WithTable(db[s], t,
                [columns |-> Append(tbl.columns, [NewColumns[c] EXCEPT !.is_nullable = "NO"]),
                 indexes |-> (PkeyName(t) :> MkIndex(PkeyName(t), "btree", TRUE, TRUE, <<c>>))
                                @@ [n \in rest |-> tbl.indexes[n]]]))

\* ALTER TABLE t DROP CONSTRAINT t_pkey, ADD PRIMARY KEY USING INDEX n: the
\* unique btree index n becomes the primary index under its own name.
PromoteIndex(s, t, n) ==
    /\ Editable
    /\ t \in DOMAIN db[s].tables
    /\ n \in DOMAIN db[s].tables[t].indexes
    /\ LET tbl == db[s].tables[t]
           idx == tbl.indexes[n]
           rest == {m \in DOMAIN tbl.indexes : ~tbl.indexes[m].is_primary /\ m # n}
       IN /\ ~idx.is_primary
          /\ idx.is_unique
          /\ idx.index_type = "btree"
          /\ Apply(s, WithTable(db[s], t,
                [columns |-> [i \in DOMAIN tbl.columns |->
                                IF tbl.columns[i].column_name \in Range(idx.columns)
                                THEN [tbl.columns[i] EXCEPT !.is_nullable = "NO"]
                                ELSE tbl.columns[i]],
                 indexes |-> (n :> [idx EXCEPT !.is_primary = TRUE])
                                @@ [m \in rest |-> tbl.indexes[m]]]))

\* CREATE [UNIQUE] INDEX name ON t USING method (columns)
CreateIndex(s, t, name, def) ==
    /\ Editable
    /\ t \in DOMAIN db[s].tables
    /\ name \in IndexNames \ IndexNamesIn(db[s])
    /\ def \in IndexDefs
    /\ Range(def[3]) \subseteq ColumnNames(db[s].tables[t])
    /\ Apply(s, WithTable(db[s], t,
            [db[s].tables[t] EXCEPT !.indexes =
                (name :> MkIndex(name, def[1], def[2], FALSE, def[3])) @@ @]))

DropIndex(s, t, name) ==
    /\ Editable
    /\ t \in DOMAIN db[s].tables
    /\ name \in IndexNames \cap DOMAIN db[s].tables[t].indexes
    /\ Apply(s, WithTable(db[s], t,
            [db[s].tables[t] EXCEPT !.indexes = Remove(@, name)]))

InsertAt(seq, i, x) == SubSeq(seq, 1, i - 1) \o <<x>> \o SubSeq(seq, i, Len(seq))

\* ALTER TYPE e ADD VALUE 'paused' BEFORE / AFTER a label
AddEnumValue(s, e, i) ==
    /\ Editable
    /\ e \in DOMAIN db[s].enums
    /\ "paused" \notin Range(db[s].enums[e])
    /\ i \in 1..(Len(db[s].enums[e]) + 1)
    /\ Apply(s, [db[s] EXCEPT !.enums[e] = InsertAt(@, i, "paused")])

CreateType(s, e) ==
    /\ Editable
    /\ e \in DOMAIN NewEnums \ DOMAIN db[s].enums
    /\ Apply(s, [db[s] EXCEPT !.enums = (e :> NewEnums[e]) @@ @])

DropType(s, e) ==
    /\ Editable
    /\ e \in DOMAIN db[s].enums
    /\ Apply(s, [db[s] EXCEPT !.enums = Remove(@, e)])

AddConstraint(s, n) ==
    /\ Editable
    /\ n \in DOMAIN ConstraintRows
    /\ \A r \in db[s].constraints :
            r.constraint_name # ConstraintRows[n].constraint_name
    /\ {ConstraintRows[n].table_name, ConstraintRows[n].foreign_table_name}
            \subseteq DOMAIN db[s].tables
    /\ ConstraintRows[n].foreign_column_name
            \in ColumnNames(db[s].tables[ConstraintRows[n].foreign_table_name])
    /\ ConstraintRows[n].column_name
            \in ColumnNames(db[s].tables[ConstraintRows[n].table_name]) \cup {""}
    /\ Apply(s, [db[s] EXCEPT !.constraints = @ \cup {ConstraintRows[n]}])

DropConstraint(s, n) ==
    /\ Editable
    /\ n \in DOMAIN ConstraintRows
    /\ ConstraintRows[n] \in db[s].constraints
    /\ Apply(s, [db[s] EXCEPT !.constraints = @ \ {ConstraintRows[n]}])

\* CREATE SEQUENCE / VIEW / FUNCTION / TRIGGER
CreateObject(s, cat, rows) ==
    /\ Editable
    /\ cat \in OtherCategories
    /\ rows \in OtherObjects[cat]
    /\ rows \cap db[s][cat] = {}
    /\ cat = "triggers" => "users" \in DOMAIN db[s].tables
    /\ Apply(s, [db[s] EXCEPT ![cat] = @ \cup rows])

\* DROP SEQUENCE / VIEW / FUNCTION / TRIGGER
DropObject(s, cat, rows) ==
    /\ Editable
    /\ cat \in OtherCategories
    /\ rows \in OtherObjects[cat]
    /\ rows \subseteq db[s][cat]
    /\ Apply(s, [db[s] EXCEPT ![cat] = @ \ rows])

\* The locals of sync-indexes main (uat_indexes, prod_indexes, missing, success,
\* failed), of run_migrations (i, success, failed), of get_full_schema (tables,
\* i), the statements printed or executed so far (out), and the exception that
\* ended the program (error; "" when none).
NoLocals ==
    [uat_indexes |-> <<>>, prod_indexes |-> <<>>, missing |-> <<>>, failed_at |-> <<>>,
     i |-> 0, success |-> 0, failed |-> 0, out |-> <<>>, error |-> "",
     side |-> "", schema |-> NoSchema, todo |-> <<>>, columns |-> <<>>,
     env_exists |-> FALSE, env_local |-> <<>>, env_copy |-> <<>>,
     messages |-> <<>>,
     users |-> {}, users0 |-> {}, deps |-> {}, deps0 |-> {}, older_id |-> "",
     dup_billing |-> FALSE, fix_indexes |-> {}]

Init ==
    /\ db = [s \in Sides |-> BaseCatalog]
    /\ edits = 0
    /\ pc = "start"
    /\ uat_schema = NoSchema
    /\ prod_schema = NoSchema
    /\ uat_cols = <<>>
    /\ prod_cols = <<>>
    /\ report = <<>>
    /\ summary = <<>>
    /\ locals = NoLocals


(***************************************************************************)
(* compare-db-schemas.py: introspection                                    *)
(***************************************************************************)

get_tables(cat) == DOMAIN cat.tables

\* dict column_name -> row of information_schema.columns
get_columns(cat, table_name) ==
    LET tbl == cat.tables[table_name]
    IN [c \in ColumnNames(tbl) |-> tbl.columns[ColumnIndex(tbl, c)]]

\* The columns of the primary index, ORDER BY a.attnum: the order of the columns
\* in the table, whatever their order in the key.
get_primary_keys(cat, table_name) ==
    LET tbl == cat.tables[table_name]
        key == Range(PrimaryKeyOf(tbl))
        InKey(col) == col.column_name \in key
        rows == SelectSeq(tbl.columns, InKey)
    IN [i \in DOMAIN rows |-> rows[i].column_name]

\* dict constraint_name -> row, for the FOREIGN KEY constraints of the table
get_foreign_keys(cat, table_name) ==
    LET rows == {r \in cat.constraints :
                    r.constraint_type = "FOREIGN KEY" /\ r.table_name = table_name}
    IN [n \in {r.constraint_name : r \in rows} |->
            LET r == CHOOSE r \in rows : r.constraint_name = n
            IN [constraint_name |-> r.constraint_name,
                column_name |-> r.column_name,
                foreign_table_name |-> r.foreign_table_name,
                foreign_column_name |-> r.foreign_column_name]]

\* dict index_name -> row; columns aggregated in key order (array_position)
get_indexes(cat, table_name) == cat.tables[table_name].indexes

\* dict enum_name -> labels ORDER BY enumsortorder
get_enums(cat) == cat.enums

get_full_schema(cat) ==
    [tables |-> [t \in get_tables(cat) |->
                    [columns      |-> get_columns(cat, t),
                     primary_keys |-> get_primary_keys(cat, t),
                     foreign_keys |-> get_foreign_keys(cat, t),
                     indexes      |-> get_indexes(cat, t)]],
     enums |-> get_enums(cat)]

(***************************************************************************)
(* compare-db-schemas.py: comparison                                       *)
(***************************************************************************)

\* One printed difference line.  "UAT but NOT in PROD" is missing_in_right, "PROD
\* but NOT in UAT" is missing_in_left, "differs" is attribute_mismatch with the two
\* values the line shows.
Entry(category, object_key, kind, attr, left_value, right_value) ==
    [category |-> category, object_key |-> object_key, kind |-> kind,
     attr |-> attr, left_value |-> left_value, right_value |-> right_value]

Missing(category, object_key, kind) ==
    Entry(category, object_key, kind, "", <<>>, <<>>)

\* str(): None prints as the four characters None, a string as itself.
Str(v) == IF v = None THEN <<"N", "o", "n", "e">> ELSE v

RECURSIVE Flatten(_)
Flatten(ss) == IF ss = <<>> THEN <<>> ELSE Head(ss) \o Flatten(Tail(ss))

\* compare_columns, lines 174-178: one line when data_type or udt_name differs,
\* showing the two udt_name.
TypeDiff(uat_col, prod_col, key) ==
    IF uat_col.data_type # prod_col.data_type \/ uat_col.udt_name # prod_col.udt_name
    THEN <<Entry("column", key, "attribute_mismatch", "type",
                 <<uat_col.udt_name>>, <<prod_col.udt_name>>)>>
    ELSE <<>>

\* Mutant: the test is on the UAT value alone instead of on the two differing.
NullableDiff_UatOnly(uat_col, prod_col, key) ==
    IF uat_col.is_nullable = "YES"
    THEN <<Entry("column", key, "attribute_mismatch", "nullable",
                 <<uat_col.is_nullable>>, <<prod_col.is_nullable>>)>>
    ELSE <<>>

\* compare_columns, lines 180-184
NullableDiff(uat_col, prod_col, key) ==
    IF uat_col.is_nullable # prod_col.is_nullable
    THEN <<Entry("column", key, "attribute_mismatch", "nullable",
                 <<uat_col.is_nullable>>, <<prod_col.is_nullable>>)>>
    ELSE <<>>

\* compare_columns, lines 186-192
DefaultDiff(uat_col, prod_col, key) ==
    IF Str(uat_col.column_default) # Str(prod_col.column_default)
    THEN <<Entry("column", key, "attribute_mismatch", "default",
                 Str(uat_col.column_default), Str(prod_col.column_default))>>
    ELSE <<>>

\* The body of the loop over the common columns.
CommonColumnDiffs(uat_col, prod_col, key) ==
    TypeDiff(uat_col, prod_col, key)
        \o NullableDiff(uat_col, prod_col, key)
        \o DefaultDiff(uat_col, prod_col, key)

\* The names a set difference leaves: left - right.
OnlyIn(left, right) == left \ right

\* Mutant: the two loops over the one-sided columns carry each other's message.
compare_columns_in_Swapped(uat_columns, prod_columns, table_name, o1, o2, o3) ==
    [i \in DOMAIN o1 |-> Missing("column", <<table_name, o1[i]>>, "missing_in_left")]
    \o [i \in DOMAIN o2 |-> Missing("column", <<table_name, o2[i]>>, "missing_in_right")]
    \o Flatten([i \in DOMAIN o3 |->
            CommonColumnDiffs(uat_columns[o3[i]], prod_columns[o3[i]],
                              <<table_name, o3[i]>>)])

\* compare_columns with the order in which each of its three sets is iterated:
\* o1 enumerates uat_names - prod_names, o2 prod_names - uat_names, o3 the
\* common names.
compare_columns_in(uat_columns, prod_columns, table_name, o1, o2, o3) ==
    [i \in DOMAIN o1 |-> Missing("column", <<table_name, o1[i]>>, "missing_in_right")]
    \o [i \in DOMAIN o2 |-> Missing("column", <<table_name, o2[i]>>, "missing_in_left")]
    \o Flatten([i \in DOMAIN o3 |->
            CommonColumnDiffs(uat_columns[o3[i]], prod_columns[o3[i]],
                              <<table_name, o3[i]>>)])

\* Every list compare_columns can return.
compare_columns(uat_columns, prod_columns, table_name) ==
    LET uat_names == DOMAIN uat_columns
        prod_names == DOMAIN prod_columns
    IN {compare_columns_in(uat_columns, prod_columns, table_name, o1, o2, o3) :
            o1 \in Perms(OnlyIn(uat_names, prod_names)),
            o2 \in Perms(OnlyIn(prod_names, uat_names)),
            o3 \in Perms(uat_names \cap prod_names)}

\* compare_schemas, lines 235-239
PrimaryKeyDiff(uat_table, prod_table, table) ==
    IF uat_table.primary_keys # prod_table.primary_keys
    THEN <<Entry("primary_key", <<table>>, "attribute_mismatch", "primary_keys",
                 uat_table.primary_keys, prod_table.primary_keys)>>
    ELSE <<>>

\* Mutant: the loop over uat_idx - prod_idx is missing.
IndexDiffs_ProdOnly(uat_table, prod_table, table) ==
    LET uat_idx == DOMAIN uat_table.indexes
        prod_idx == DOMAIN prod_table.indexes
    IN {[i \in DOMAIN o1 |-> Missing("index", <<table, o1[i]>>, "missing_in_left")] :
            o1 \in Perms(OnlyIn(prod_idx, uat_idx))}

\* compare_schemas, lines 241-249: the index names of the two sides compared as
\* sets; every list the two loops can append.
IndexDiffs(uat_table, prod_table, table) ==
    LET uat_idx == DOMAIN uat_table.indexes
        prod_idx == DOMAIN prod_table.indexes
    IN {[i \in DOMAIN o1 |-> Missing("index", <<table, o1[i]>>, "missing_in_left")]
        \o [i \in DOMAIN o2 |-> Missing("index", <<table, o2[i]>>, "missing_in_right")] :
            o1 \in Perms(OnlyIn(prod_idx, uat_idx)),
            o2 \in Perms(OnlyIn(uat_idx, prod_idx))}

\* The body of the loop over the common tables: every diffs list it can build.
TableDiffs(uat, prod, table) ==
    LET uat_table == uat.tables[table]
        prod_table == prod.tables[table]
    IN {c \o PrimaryKeyDiff(uat_table, prod_table, table) \o x :
            c \in compare_columns(uat_table.columns, prod_table.columns, table),
            x \in IndexDiffs(uat_table, prod_table, table)}

\* The lists of the tables in tables_with_diffs, printed one after the other.
RECURSIVE TablesWithDiffs(_, _, _)
TablesWithDiffs(uat, prod, tables) ==
    IF tables = <<>> THEN {<<>>}
    ELSE {d \o rest : d \in TableDiffs(uat, prod, Head(tables)),
                      rest \in TablesWithDiffs(uat, prod, Tail(tables))}

\* Mutant: the label lists are compared as sets.
EnumDiffs_AsSets(uat, prod) ==
    LET uat_enums == DOMAIN uat.enums
        prod_enums == DOMAIN prod.enums
        Values(e) ==
            IF Range(uat.enums[e]) # Range(prod.enums[e])
            THEN <<Entry("enum", <<e>>, "attribute_mismatch", "values",
                         uat.enums[e], prod.enums[e])>>
            ELSE <<>>
    IN IF uat_enums # prod_enums \/ uat.enums # prod.enums
       THEN {[i \in DOMAIN o1 |->
                 Entry("enum", <<o1[i]>>, "missing_in_left", "", <<>>, prod.enums[o1[i]])]
             \o [i \in DOMAIN o2 |-> Missing("enum", <<o2[i]>>, "missing_in_right")]
             \o Flatten([i \in DOMAIN o3 |-> Values(o3[i])]) :
                o1 \in Perms(OnlyIn(prod_enums, uat_enums)),
                o2 \in Perms(OnlyIn(uat_enums, prod_enums)),
                o3 \in Perms(uat_enums \cap prod_enums)}
       ELSE {<<>>}

\* compare_schemas, lines 267-286
EnumDiffs(uat, prod) ==
    LET uat_enums == DOMAIN uat.enums
        prod_enums == DOMAIN prod.enums
        Values(e) ==
            IF uat.enums[e] # prod.enums[e]
            THEN <<Entry("enum", <<e>>, "attribute_mismatch", "values",
                         uat.enums[e], prod.enums[e])>>
            ELSE <<>>
    IN IF uat_enums # prod_enums \/ uat.enums # prod.enums
       THEN {[i \in DOMAIN o1 |->
                 Entry("enum", <<o1[i]>>, "missing_in_left", "", <<>>, prod.enums[o1[i]])]
             \o [i \in DOMAIN o2 |-> Missing("enum", <<o2[i]>>, "missing_in_right")]
             \o Flatten([i \in DOMAIN o3 |-> Values(o3[i])]) :
                o1 \in Perms(OnlyIn(prod_enums, uat_enums)),
                o2 \in Perms(OnlyIn(uat_enums, prod_enums)),
                o3 \in Perms(uat_enums \cap prod_enums)}
       ELSE {<<>>}

\* Mutant: uat_only is all of uat_tables.
MissingTables_AllUat(uat, prod) ==
    LET uat_tables == DOMAIN uat.tables
        prod_tables == DOMAIN prod.tables
        uat_only == Sorted(uat_tables)
        prod_only == Sorted(OnlyIn(prod_tables, uat_tables))
    IN [i \in DOMAIN uat_only |-> Missing("table", <<uat_only[i]>>, "missing_in_right")]
       \o [i \in DOMAIN prod_only |-> Missing("table", <<prod_only[i]>>, "missing_in_left")]

\* compare_schemas, lines 202-217: the two table lists, each printed sorted.
MissingTables(uat, prod) ==
    LET uat_tables == DOMAIN uat.tables
        prod_tables == DOMAIN prod.tables
        uat_only == Sorted(OnlyIn(uat_tables, prod_tables))
        prod_only == Sorted(OnlyIn(prod_tables, uat_tables))
    IN [i \in DOMAIN uat_only |-> Missing("table", <<uat_only[i]>>, "missing_in_right")]
       \o [i \in DOMAIN prod_only |-> Missing("table", <<prod_only[i]>>, "missing_in_left")]

\* Every sequence of difference lines compare_schemas can print.
compare_schemas(uat, prod) ==
    LET common_tables == DOMAIN uat.tables \cap DOMAIN prod.tables
    IN {MissingTables(uat, prod) \o t \o e :
            t \in TablesWithDiffs(uat, prod, Sorted(common_tables)),
            e \in EnumDiffs(uat, prod)}

\* main, line 300
GetFullSchemaUAT ==
    /\ pc = "start"
    /\ uat_schema' = get_full_schema(db.UAT)
    /\ pc' = "uat_read"
    /\ UNCHANGED <<db, edits, prod_schema, uat_cols, prod_cols, report, summary, locals>>

\* main, line 301
GetFullSchemaPROD ==
    /\ pc = "uat_read"
    /\ prod_schema' = get_full_schema(db.PROD)
    /\ pc' = "prod_read"
    /\ UNCHANGED <<db, edits, uat_schema, uat_cols, prod_cols, report, summary, locals>>

\* main, line 304
CompareSchemas ==
    /\ pc = "prod_read"
    /\ \E r \in compare_schemas(uat_schema, prod_schema) : report' = r
    /\ pc' = "done"
    /\ UNCHANGED <<db, edits, uat_schema, prod_schema, uat_cols, prod_cols, summary, locals>>

\* The exit status of the process: main returns normally whatever was printed
\* (there is no sys.exit), an uncaught exception ends the interpreter with 1.
ExitStatus == IF pc = "crashed" THEN 1 ELSE 0

(***************************************************************************)
(* compare-db-schemas.py: get_full_schema query by query                   *)
(***************************************************************************)

\* get_full_schema, lines 133-139: the enums and the list of tables are read.
BuildStart(s) ==
    /\ pc = (IF s = "UAT" THEN "start" ELSE "uat_read")
    /\ locals' = [locals EXCEPT
            !.side = s,
            !.schema = [tables |-> <<>>, enums |-> get_enums(db[s])],
            !.todo = Sorted(get_tables(db[s])),
            !.columns = <<>>]
    /\ pc' = "building_columns"
    /\ UNCHANGED <<db, edits, uat_schema, prod_schema, uat_cols, prod_cols, report, summary>>

\* get_full_schema, line 143: the column query of the next table.  A table that
\* is gone has no rows.
BuildColumns ==
    /\ pc = "building_columns"
    /\ locals.todo # <<>>
    /\ LET cat == db[locals.side]
           t == Head(locals.todo)
       IN locals' = [locals EXCEPT !.columns =
                        IF t \in DOMAIN cat.tables THEN get_columns(cat, t) ELSE <<>>]
    /\ pc' = "building_keys"
    /\ UNCHANGED <<db, edits, uat_schema, prod_schema, uat_cols, prod_cols, report, summary>>

\* get_full_schema, lines 142-147: the key and index queries of the table; its
\* entry is stored.
BuildKeys ==
    /\ pc = "building_keys"
    /\ LET cat == db[locals.side]
           t == Head(locals.todo)
           here == t \in DOMAIN cat.tables
           entry == [columns      |-> locals.columns,
                     primary_keys |-> IF here THEN get_primary_keys(cat, t) ELSE <<>>,
                     foreign_keys |-> IF here THEN get_foreign_keys(cat, t) ELSE <<>>,
                     indexes      |-> IF here THEN get_indexes(cat, t) ELSE <<>>]
       IN locals' = [locals EXCEPT
                        !.schema.tables = (t :> entry) @@ @,
                        !.todo = Tail(@),
                        !.columns = <<>>]
    /\ pc' = "building_columns"
    /\ UNCHANGED <<db, edits, uat_schema, prod_schema, uat_cols, prod_cols, report, summary>>

\* get_full_schema, line 152, and main, line 300 or 301
BuildEnd ==
    /\ pc = "building_columns"
    /\ locals.todo = <<>>
    /\ IF locals.side = "UAT"
       THEN uat_schema' = locals.schema /\ prod_schema' = prod_schema /\ pc' = "uat_read"
       ELSE prod_schema' = locals.schema /\ uat_schema' = uat_schema /\ pc' = "prod_read"
    /\ UNCHANGED <<db, edits, uat_cols, prod_cols, report, summary, locals>>

(***************************************************************************)
(* deep-schema-compare.py                                                  *)
(***************************************************************************)

\* dict table_name -> dict column_name -> row, built from the rows of
\* information_schema.columns: a table without columns has no rows and no key.
get_all_columns_detailed(cat) ==
    [t \in {t \in DOMAIN cat.tables : cat.tables[t].columns # <<>>} |->
        LET tbl == cat.tables[t]
        IN [c \in ColumnNames(tbl) |->
                LET i == ColumnIndex(tbl, c)
                    col == tbl.columns[i]
                IN [table_name |-> t,
                    column_name |-> c,
                    ordinal_position |-> i,
                    column_default |-> col.column_default,
                    is_nullable |-> col.is_nullable,
                    data_type |-> col.data_type,
                    udt_name |-> col.udt_name,
                    character_maximum_length |-> col.character_maximum_length,
                    numeric_precision |-> col.numeric_precision,
                    numeric_scale |-> col.numeric_scale,
                    is_identity |-> "NO",
                    identity_generation |-> None]]]

\* The rows of the constraints query: the declared constraints and, for every
\* primary key, one row per pair of key columns (the two joins multiply).
get_all_constraints(cat) ==
    cat.constraints
    \cup UNION {
        LET key == Range(PrimaryKeyOf(cat.tables[t]))
        IN {[table_name |-> t, constraint_name |-> PkeyName(t),
             constraint_type |-> "PRIMARY KEY", column_name |-> c,
             foreign_table_name |-> t, foreign_column_name |-> f,
             check_clause |-> ""] : c \in key, f \in key}
        : t \in DOMAIN cat.tables}

get_sequences(cat) == cat.sequences

get_views(cat) == cat.views

get_functions(cat) == cat.functions

get_triggers(cat) == cat.triggers

\* main, lines 180-188: the body of the loop over the common columns
DeepCommonColumnDiffs(uat_c, prod_c, key) ==
    (IF uat_c.udt_name # prod_c.udt_name
     THEN <<Entry("column", key, "attribute_mismatch", "type",
                  <<uat_c.udt_name>>, <<prod_c.udt_name>>)>>
     ELSE <<>>)
    \o (IF uat_c.is_nullable # prod_c.is_nullable
        THEN <<Entry("column", key, "attribute_mismatch", "nullable",
                     <<uat_c.is_nullable>>, <<prod_c.is_nullable>>)>>
        ELSE <<>>)

\* The column names of a dict of rows in insertion order, which is the order of
\* the rows: ordinal_position.
ItemsOrder(table_cols) ==
    LET n == Cardinality(DOMAIN table_cols)
    IN [i \in 1..n |->
            CHOOSE c \in DOMAIN table_cols :
                Cardinality({d \in DOMAIN table_cols :
                    table_cols[d].ordinal_position < table_cols[c].ordinal_position})
                = i - 1]

\* main, lines 152-193: every list of lines one turn of the loop over all_tables
\* can print.
DeepTableLines(ucols, pcols, table) ==
    IF table \notin DOMAIN ucols
    THEN {<<Entry("table", <<table>>, "missing_in_left", "", <<>>,
                  ItemsOrder(pcols[table]))>>}
    ELSE IF table \notin DOMAIN pcols
    THEN {<<Missing("table", <<table>>, "missing_in_right")>>}
    ELSE LET uat_table == ucols[table]
             prod_table == pcols[table]
             uat_col_names == DOMAIN uat_table
             prod_col_names == DOMAIN prod_table
         IN {[i \in DOMAIN o1 |->
                 Entry("column", <<table, o1[i]>>, "missing_in_left", "", <<>>,
                       <<prod_table[o1[i]].udt_name>>)]
             \o [i \in DOMAIN o2 |->
                 Entry("column", <<table, o2[i]>>, "missing_in_right", "",
                       <<uat_table[o2[i]].udt_name>>, <<>>)]
             \o Flatten([i \in DOMAIN o3 |->
                    DeepCommonColumnDiffs(uat_table[o3[i]], prod_table[o3[i]],
                                          <<table, o3[i]>>)]) :
                o1 \in Perms(OnlyIn(prod_col_names, uat_col_names)),
                o2 \in Perms(OnlyIn(uat_col_names, prod_col_names)),
                o3 \in Perms(uat_col_names \cap prod_col_names)}

RECURSIVE DeepColumnLines(_, _, _)
DeepColumnLines(ucols, pcols, tables) ==
    IF tables = <<>> THEN {<<>>}
    ELSE {d \o rest : d \in DeepTableLines(ucols, pcols, Head(tables)),
                      rest \in DeepColumnLines(ucols, pcols, Tail(tables))}

\* The pattern of sections 2 to 6: the keys only in PROD, then the keys only in
\* UAT, each set in any iteration order.
KeyDiffs(category, uat_keys, prod_keys) ==
    {[i \in DOMAIN o1 |-> Missing(category, o1[i], "missing_in_left")]
     \o [i \in DOMAIN o2 |-> Missing(category, o2[i], "missing_in_right")] :
        o1 \in Perms(OnlyIn(prod_keys, uat_keys)),
        o2 \in Perms(OnlyIn(uat_keys, prod_keys))}

\* main, lines 203-204
ConstraintNames(rows) == {<<c.table_name, c.constraint_name>> : c \in rows}

\* The keys of the dict built from the rows of a category, by its name column.
SequenceKeys(rows) == {<<r.sequence_name>> : r \in rows}
ViewKeys(rows) == {<<r.table_name>> : r \in rows}
FunctionKeys(rows) == {<<r.function_name>> : r \in rows}
TriggerKeys(rows) == {<<r.trigger_name>> : r \in rows}

\* Table names that start with two underscores (line 298); none in this model.
DunderTables == {}

\* main, lines 294-299
TablesToAdd(ucols, pcols) ==
    LET tables_to_add == Sorted(OnlyIn(DOMAIN ucols, DOMAIN pcols))
        Shown(t) == t \notin DunderTables
        shown == SelectSeq(tables_to_add, Shown)
    IN [i \in DOMAIN shown |-> [statement |-> "create_table", table |-> shown[i],
                                column |-> "", udt_name |-> "", nullable |-> "",
                                default |-> <<>>]]

\* main, lines 312-314: one line of the columns to add
ColumnLine(table, col, details) ==
    [statement |-> "add_column", table |-> table, column |-> col,
     udt_name |-> details.udt_name,
     nullable |-> IF details.is_nullable = "YES" THEN "NULL" ELSE "NOT NULL",
     default |-> IF details.column_default # None THEN details.column_default ELSE <<>>]

\* main, lines 302-307: every cols_to_add the two nested loops over sets can build
RECURSIVE ColsToAdd(_, _, _)
ColsToAdd(ucols, pcols, tables) ==
    IF tables = <<>> THEN {<<>>}
    ELSE LET table == Head(tables)
         IN {[i \in DOMAIN o |-> ColumnLine(table, o[i], ucols[table][o[i]])] \o rest :
                o \in Perms(OnlyIn(DOMAIN ucols[table], DOMAIN pcols[table])),
                rest \in ColsToAdd(ucols, pcols, Tail(tables))}

\* Every sequence of difference lines main prints, sections 1 to 6.
deep_main(uat, prod) ==
    LET ucols == get_all_columns_detailed(uat)
        pcols == get_all_columns_detailed(prod)
    IN {c \o k \o q \o v \o f \o g :
            c \in DeepColumnLines(ucols, pcols, Sorted(DOMAIN ucols \cup DOMAIN pcols)),
            k \in KeyDiffs("constraint", ConstraintNames(get_all_constraints(uat)),
                           ConstraintNames(get_all_constraints(prod))),
            q \in KeyDiffs("sequence", SequenceKeys(get_sequences(uat)),
                           SequenceKeys(get_sequences(prod))),
            v \in KeyDiffs("view", ViewKeys(get_views(uat)), ViewKeys(get_views(prod))),
            f \in KeyDiffs("function", FunctionKeys(get_functions(uat)),
                           FunctionKeys(get_functions(prod))),
            g \in KeyDiffs("trigger", TriggerKeys(get_triggers(uat)),
                           TriggerKeys(get_triggers(prod)))}

DeepStep(from, to, lines) ==
    /\ pc = from
    /\ \E l \in lines : report' = report \o l
    /\ pc' = to
    /\ UNCHANGED <<db, edits, uat_schema, prod_schema, uat_cols, prod_cols, summary, locals>>

\* main, lines 142-193
DeepColumns ==
    /\ pc = "start"
    /\ uat_cols' = get_all_columns_detailed(db.UAT)
    /\ prod_cols' = get_all_columns_detailed(db.PROD)
    /\ \E l \in DeepColumnLines(uat_cols', prod_cols',
                                Sorted(DOMAIN uat_cols' \cup DOMAIN prod_cols')) :
            report' = l
    /\ pc' = "constraints"
    /\ UNCHANGED <<db, edits, uat_schema, prod_schema, summary, locals>>

\* main, lines 195-213
DeepConstraints ==
    DeepStep("constraints", "sequences",
             KeyDiffs("constraint", ConstraintNames(get_all_constraints(db.UAT)),
                      ConstraintNames(get_all_constraints(db.PROD))))

\* main, lines 215-230
DeepSequences ==
    DeepStep("sequences", "views",
             KeyDiffs("sequence", SequenceKeys(get_sequences(db.UAT)),
                      SequenceKeys(get_sequences(db.PROD))))

\* main, lines 232-247
DeepViews ==
    DeepStep("views", "functions",
             KeyDiffs("view", ViewKeys(get_views(db.UAT)), ViewKeys(get_views(db.PROD))))

\* main, lines 249-264
DeepFunctions ==
    DeepStep("functions", "triggers",
             KeyDiffs("function", FunctionKeys(get_functions(db.UAT)),
                      FunctionKeys(get_functions(db.PROD))))

\* main, lines 266-281
DeepTriggers ==
    DeepStep("triggers", "summary",
             KeyDiffs("trigger", TriggerKeys(get_triggers(db.UAT)),
                      TriggerKeys(get_triggers(db.PROD))))

\* main, lines 283-314
DeepSummary ==
    /\ pc = "summary"
    /\ \E tables \in Perms(DOMAIN uat_cols \cap DOMAIN prod_cols) :
        \E cols \in ColsToAdd(uat_cols, prod_cols, tables) :
            summary' = TablesToAdd(uat_cols, prod_cols) \o cols
    /\ pc' = "deep_done"
    /\ UNCHANGED <<db, edits, uat_schema, prod_schema, uat_cols, prod_cols, report, locals>>

(***************************************************************************)
(* Failing queries: neither tool has a try/except around cursor.execute,    *)
(* so the driver's exception leaves main and ends the run.                  *)
(***************************************************************************)

\* The queries get_full_schema issues once per table (lines 143-146).
PerTableQueries == {"get_columns", "get_primary_keys", "get_foreign_keys", "get_indexes"}

\* All the queries of get_full_schema (lines 135, 138, 143-146).
SchemaQueries == {"get_enums", "get_tables"} \cup PerTableQueries

\* The query deep-schema-compare issues at each position after the columns.
CategoryQueryAt ==
    [constraints |-> "get_all_constraints", sequences |-> "get_sequences",
     views |-> "get_views", functions |-> "get_functions",
     triggers |-> "get_triggers"]

\* The uncaught exception: the run ends, nothing more is assigned or printed.
Raise(q, at) ==
    /\ pc' = "crashed"
    /\ locals' = [locals EXCEPT !.error = q, !.failed_at = at]

\* The variant of GetFullSchemaRaises that catches the exception and returns
\* the snapshot with an empty column map for the table.
GetFullSchemaRaises_Swallowed(s, q, t) ==
    /\ pc = (IF s = "UAT" THEN "start" ELSE "uat_read")
    /\ q \in PerTableQueries
    /\ t \in get_tables(db[s])
    /\ LET partial == [get_full_schema(db[s]) EXCEPT !.tables[t].columns = <<>>]
       IN IF s = "UAT"
          THEN uat_schema' = partial /\ prod_schema' = prod_schema
          ELSE prod_schema' = partial /\ uat_schema' = uat_schema
    /\ pc' = (IF s = "UAT" THEN "uat_read" ELSE "prod_read")
    /\ locals' = [locals EXCEPT !.error = q, !.failed_at = <<s, t>>]
    /\ UNCHANGED <<db, edits, uat_cols, prod_cols, report, summary>>

\* compare-db-schemas main, lines 300-301: query q of get_full_schema raises,
\* for table t when it is a per-table query.  The assignment of line 300 or 301
\* does not happen.
GetFullSchemaRaises(s, q, t) ==
    /\ pc = (IF s = "UAT" THEN "start" ELSE "uat_read")
    /\ q \in SchemaQueries
    /\ IF q \in PerTableQueries THEN t \in get_tables(db[s]) ELSE t = ""
    /\ Raise(q, <<s, t>>)
    /\ UNCHANGED <<db, edits, uat_schema, prod_schema, uat_cols, prod_cols,
                   report, summary>>

\* deep-schema-compare main, lines 147-148: get_all_columns_detailed raises.
\* When it is the PROD query, uat_cols has been assigned.
DeepColumnsRaises(s) ==
    /\ pc = "start"
    /\ Raise("get_all_columns_detailed", <<s, "">>)
    /\ uat_cols' = (IF s = "PROD" THEN get_all_columns_detailed(db.UAT) ELSE uat_cols)
    /\ UNCHANGED <<db, edits, uat_schema, prod_schema, prod_cols, report, summary>>

\* deep-schema-compare main, lines 200-201, 220-221, 237-238, 254-255, 271-272:
\* the query of the section raises.  What the earlier sections printed stays
\* printed.
DeepCategoryRaises(s) ==
    /\ pc \in DOMAIN CategoryQueryAt
    /\ Raise(CategoryQueryAt[pc], <<s, "">>)
    /\ UNCHANGED <<db, edits, uat_schema, prod_schema, uat_cols, prod_cols,
                   report, summary>>

(***************************************************************************)
(* remove-env-comments.py                                                  *)
(***************************************************************************)

\* The characters of a file: '#', a letter, a blank, line feed, carriage return.
Chars == {"#", "a", " ", "LF", "CR"}

\* What str.lstrip() removes.
Whitespace == {" ", "LF", "CR"}

RECURSIVE UniversalNewlines(_)
\* open(input_path, 'r'), line 28: in text mode with newline=None the pairs
\* CR LF and the lone CR are read as LF.
UniversalNewlines(raw) ==
    IF raw = <<>> THEN <<>>
    ELSE IF Head(raw) = "CR"
         THEN IF Len(raw) > 1 /\ raw[2] = "LF"
              THEN <<"LF">> \o UniversalNewlines(Tail(Tail(raw)))
              ELSE <<"LF">> \o UniversalNewlines(Tail(raw))
         ELSE <<Head(raw)>> \o UniversalNewlines(Tail(raw))

RECURSIVE SplitLines(_)
\* The lines of a text, each with its LF; the last one may have none.
SplitLines(text) ==
    IF text = <<>> THEN <<>>
    ELSE LET ends == {i \in DOMAIN text : text[i] = "LF"}
             n == IF ends = {} THEN Len(text)
                  ELSE CHOOSE i \in ends : \A j \in ends : i <= j
         IN <<SubSeq(text, 1, n)>> \o SplitLines(SubSeq(text, n + 1, Len(text)))

\* f.readlines(), line 29
readlines(raw) == SplitLines(UniversalNewlines(raw))

RECURSIVE lstrip(_)
lstrip(line) ==
    IF line # <<>> /\ Head(line) \in Whitespace THEN lstrip(Tail(line)) ELSE line

\* lines 34-37: the line is kept if it is blank or does not start with '#'.
KeepLine(line) ==
    LET stripped == lstrip(line)
    IN stripped = <<>> \/ Head(stripped) # "#"

RECURSIVE writelines(_)
\* f.writelines(filtered_lines), line 42: LF is written as os.linesep, LF here.
writelines(lines) ==
    IF lines = <<>> THEN <<>> ELSE Head(lines) \o writelines(Tail(lines))

\* remove_comments, lines 27-42: the content of the output file.
remove_comments(raw) == writelines(SelectSeq(readlines(raw), KeepLine))

\* remove_comments on .env.local and .env.local.copy, lines 21-48 and 51-55
RemoveComments ==
    /\ pc = "start"
    /\ IF locals.env_exists
       THEN /\ locals' = [locals EXCEPT !.env_copy = remove_comments(locals.env_local)]
            /\ pc' = "env_done"
       ELSE /\ locals' = [locals EXCEPT !.error = "does not exist"]
            /\ pc' = "crashed"
    /\ UNCHANGED <<db, edits, uat_schema, prod_schema, uat_cols, prod_cols, report, summary>>

\* cp .env.local.copy .env.local: the output becomes the input of another run.
UseCopy ==
    /\ pc = "env_done"
    /\ edits < MaxEdits
    /\ locals' = [locals EXCEPT !.env_local = locals.env_copy, !.env_copy = <<>>]
    /\ edits' = edits + 1
    /\ pc' = "start"
    /\ UNCHANGED <<db, uat_schema, prod_schema, uat_cols, prod_cols, report, summary>>

(***************************************************************************)
(* fix-duplicates.py                                                       *)
(***************************************************************************)

UserIds == {"u1", "u2", "u3"}

\* The values of users.created_at.
CreatedAts == {1, 2}

\* lines 39-45: the tables with a user_id column
user_id_tables ==
    <<"user_billing", "user_subscriptions", "user_system_data", "user_usage",
      "user_profiles">>

\* lines 47-75: the tables deleted from before users, in the order of the code
DependentTables == user_id_tables \o <<"campaigns", "creator_lists">>

\* A row of users: match tells whether lower(email) is the address of line 22.
UserRow(id, match, created_at) == [id |-> id, match |-> match, created_at |-> created_at]

\* The variant of the query with ORDER BY created_at DESC.
FoundUsers_Newest(rows) ==
    LET m == {r \in rows : r.match}
    IN {s \in Perms(m) : \A i, j \in DOMAIN s : i < j => s[i].created_at >= s[j].created_at}

\* lines 19-25: the rows of the e-mail ORDER BY created_at ASC, in every order the
\* server can give to rows of equal created_at.
FoundUsers(rows) ==
    LET m == {r \in rows : r.match}
    IN {s \in Perms(m) : \A i, j \in DOMAIN s : i < j => s[i].created_at <= s[j].created_at}

\* main, lines 19-36 and 81-82
FixFindUsers ==
    /\ pc = "start"
    /\ \E found \in FoundUsers(locals.users) :
        IF Len(found) >= 2
        THEN /\ locals' = [locals EXCEPT !.older_id = found[1].id, !.i = 1]
             /\ pc' = "fix_deleting"
        ELSE /\ locals' = locals
             /\ pc' = "fix_billing"
    /\ UNCHANGED <<db, edits, uat_schema, prod_schema, uat_cols, prod_cols, report, summary>>

\* main, lines 47-75: DELETE FROM table WHERE user_id (owner_id) = older_id,
\* committed, or rolled back when it raised; error is the last exception caught.
FixDeleteDependent ==
    /\ pc = "fix_deleting"
    /\ locals.i <= Len(DependentTables)
    /\ \E raised \in BOOLEAN :
        locals' = [locals EXCEPT
            !.i = @ + 1,
            !.error = IF raised THEN "DELETE raised" ELSE @,
            !.deps = IF raised THEN @
                     ELSE @ \ {<<DependentTables[locals.i], locals.older_id>>}]
    /\ UNCHANGED <<db, edits, pc, uat_schema, prod_schema, uat_cols, prod_cols, report,
                   summary>>

\* main, lines 78-80: DELETE FROM users WHERE id = older_id, outside any try.  It
\* raises (a foreign key still refers to the row), or deletes the row alone, or
\* deletes it with the rows that refer to it ON DELETE CASCADE.
FixDeleteUser ==
    /\ pc = "fix_deleting"
    /\ locals.i > Len(DependentTables)
    /\ \E outcome \in {"raise", "delete", "cascade"} :
        IF outcome = "raise"
        THEN /\ Raise("DELETE FROM users", <<"PROD", "users">>)
        ELSE /\ locals' = [locals EXCEPT
                    !.users = {r \in @ : r.id # locals.older_id},
                    !.deps = IF outcome = "cascade"
                             THEN {d \in @ : d[2] # locals.older_id} ELSE @]
             /\ pc' = "fix_billing"
    /\ UNCHANGED <<db, edits, uat_schema, prod_schema, uat_cols, prod_cols, report, summary>>

\* main, lines 86-106: the older of two user_billing rows with the same
\* subscription id is renamed.
FixRenameBilling ==
    /\ pc = "fix_billing"
    /\ locals' = [locals EXCEPT !.dup_billing = FALSE]
    /\ pc' = "fix_indexes"
    /\ UNCHANGED <<db, edits, uat_schema, prod_schema, uat_cols, prod_cols, report, summary>>

\* main, lines 111-132: the two unique indexes; the one on lower(email) cannot be
\* built while two rows have the e-mail.
FixCreateIndexes ==
    /\ pc = "fix_indexes"
    /\ locals' = [locals EXCEPT !.fix_indexes =
            {"user_billing_stripe_subscription_id_unique"}
            \cup IF Cardinality({r \in locals.users : r.match}) <= 1
                 THEN {"users_email_ci_unique"} ELSE {}]
    /\ pc' = "fixed"
    /\ UNCHANGED <<db, edits, uat_schema, prod_schema, uat_cols, prod_cols, report, summary>>

(***************************************************************************)
(* DDL statements as the scripts write and execute them                    *)
(***************************************************************************)

\* One SQL statement: what it creates or alters, and whether it is written with
\* IF NOT EXISTS.  body is the table, column or index definition it carries.
Statement(kind, if_not_exists, table, name, body) ==
    [kind |-> kind, if_not_exists |-> if_not_exists, table |-> table,
     name |-> name, body |-> body]

\* The names CREATE must not collide with: tables, indexes, sequences and views
\* of the schema are all relations.
RelationNames(cat) ==
    DOMAIN cat.tables \cup IndexNamesIn(cat)
        \cup {r.sequence_name : r \in cat.sequences}
        \cup {r.table_name : r \in cat.views}

\* The message of the error a statement raises; "" when it raises none.
ErrorOf(cat, s) ==
    IF s.kind = "create_table"
    THEN IF s.name \in RelationNames(cat) /\ ~s.if_not_exists
         THEN "relation already exists" ELSE ""
    ELSE IF s.table \notin DOMAIN cat.tables
    THEN "relation does not exist"
    ELSE LET tbl == cat.tables[s.table]
         IN IF s.kind = "add_column"
            THEN IF s.name \in ColumnNames(tbl) /\ ~s.if_not_exists
                 THEN "column already exists" ELSE ""
            ELSE IF s.kind = "create_index"
            THEN IF ~(Range(s.body.columns) \subseteq ColumnNames(tbl))
                 THEN "column does not exist"
                 ELSE IF s.name \in RelationNames(cat) /\ ~s.if_not_exists
                 THEN "relation already exists" ELSE ""
            ELSE \* drop_not_null
                 IF s.name \notin ColumnNames(tbl)
                 THEN "column does not exist"
                 ELSE IF s.name \in Range(PrimaryKeyOf(tbl))
                 THEN "column is in a primary key" ELSE ""

\* The catalog after a statement that raised no error.
EffectOf(cat, s) ==
    IF s.kind = "create_table"
    THEN IF s.name \in RelationNames(cat) THEN cat
         ELSE WithTable(cat, s.name, s.body)
    ELSE LET tbl == cat.tables[s.table]
         IN IF s.kind = "add_column"
            THEN IF s.name \in ColumnNames(tbl) THEN cat
                 ELSE WithTable(cat, s.table,
                        [tbl EXCEPT !.columns = Append(@, s.body)])
            ELSE IF s.kind = "create_index"
            THEN IF s.name \in RelationNames(cat) THEN cat
                 ELSE WithTable(cat, s.table,
                        [tbl EXCEPT !.indexes = (s.name :> s.body) @@ @])
            ELSE WithTable(cat, s.table,
                    [tbl EXCEPT !.columns[ColumnIndex(tbl, s.name)].is_nullable = "YES"])

\* The execution without the rollback: an ALTER that raised keeps its change.
Execute_NoRollback(cat, s) ==
    LET e == ErrorOf(cat, s)
    IN [cat |-> IF e \in {"", "column is in a primary key"} THEN EffectOf(cat, s) ELSE cat,
        error |-> e]

\* cursor.execute(sql) followed by commit, or by rollback when it raised: the
\* catalog afterwards and the message of the exception.
Execute(cat, s) ==
    LET e == ErrorOf(cat, s)
    IN [cat |-> IF e = "" THEN EffectOf(cat, s) ELSE cat, error |-> e]

\* "already exists" in error_msg, "does not exist" in error_msg
AlreadyExists(msg) == msg \in {"relation already exists", "column already exists"}

DoesNotExist(msg) == msg \in {"relation does not exist", "column does not exist"}

(***************************************************************************)
(* run-prod-migration.py                                                   *)
(***************************************************************************)

\* The same statements with the index before the table and the column.
MIGRATIONS_IndexFirst ==
    <<Statement("create_index", TRUE, "users", "idx_a",
                MkIndex("idx_a", "btree", FALSE, FALSE, <<"email">>)),
      Statement("drop_not_null", FALSE, "users", "email", <<>>),
      Statement("create_table", TRUE, "posts", "posts", NewTable("posts")),
      Statement("add_column", TRUE, "users", "name", NewColumns["name"])>>

\* The list in the order of the source, one statement of each of its groups:
\* CREATE TABLE IF NOT EXISTS, ALTER TABLE .. ADD COLUMN IF NOT EXISTS (a nullable
\* column), CREATE INDEX IF NOT EXISTS (a plain btree index on an existing column
\* of an existing table), ALTER TABLE .. ALTER COLUMN .. DROP NOT NULL.
MIGRATIONS ==
    <<Statement("create_table", TRUE, "posts", "posts", NewTable("posts")),
      Statement("add_column", TRUE, "users", "name", NewColumns["name"]),
      Statement("create_index", TRUE, "users", "idx_a",
                MkIndex("idx_a", "btree", FALSE, FALSE, <<"email">>)),
      Statement("drop_not_null", FALSE, "users", "email", <<>>)>>

\* run_migrations, lines 81-89
RunMigrationsStart ==
    /\ pc = "start"
    /\ pc' = "migrating"
    /\ locals' = [locals EXCEPT !.i = 1, !.success = 0, !.failed = 0]
    /\ UNCHANGED <<db, edits, uat_schema, prod_schema, uat_cols, prod_cols, report,
                   summary>>

\* The loop with a break in the except branch.
ExecuteMigration_StopOnError ==
    /\ pc = "migrating"
    /\ locals.i <= Len(MIGRATIONS)
    /\ LET res == Execute(db.PROD, MIGRATIONS[locals.i])
           counted == res.error = "" \/ AlreadyExists(res.error)
                            \/ DoesNotExist(res.error)
       IN /\ db' = [db EXCEPT !.PROD = res.cat]
          /\ locals' = [locals EXCEPT
                            !.i = IF res.error = "" THEN @ + 1 ELSE Len(MIGRATIONS) + 1,
                            !.out = Append(@, MIGRATIONS[locals.i]),
                            !.messages = Append(@, res.error),
                            !.success = IF counted THEN @ + 1 ELSE @,
                            !.failed = IF counted THEN @ ELSE @ + 1]
    /\ UNCHANGED <<edits, pc, uat_schema, prod_schema, uat_cols, prod_cols, report,
                   summary>>

\* run_migrations, lines 91-108: one turn of the loop; out is what line 93
\* prints, messages what lines 98, 104 and 106 print ("" for Success).
ExecuteMigration ==
    /\ pc = "migrating"
    /\ locals.i <= Len(MIGRATIONS)
    /\ LET res == Execute(db.PROD, MIGRATIONS[locals.i])
           counted == res.error = "" \/ AlreadyExists(res.error)
                            \/ DoesNotExist(res.error)
       IN /\ db' = [db EXCEPT !.PROD = res.cat]
          /\ locals' = [locals EXCEPT
                            !.i = @ + 1,
                            !.out = Append(@, MIGRATIONS[locals.i]),
                            !.messages = Append(@, res.error),
                            !.success = IF counted THEN @ + 1 ELSE @,
                            !.failed = IF counted THEN @ ELSE @ + 1]
    /\ UNCHANGED <<edits, pc, uat_schema, prod_schema, uat_cols, prod_cols, report,
                   summary>>

\* run_migrations, lines 110-115
RunMigrationsEnd ==
    /\ pc = "migrating"
    /\ locals.i > Len(MIGRATIONS)
    /\ pc' = "migrated"
    /\ UNCHANGED <<db, edits, uat_schema, prod_schema, uat_cols, prod_cols, report,
                   summary, locals>>

(***************************************************************************)
(* sync-indexes.py                                                         *)
(***************************************************************************)

\* pg_get_indexdef: CREATE [UNIQUE] INDEX name ON public.table USING method
\* (columns), never with IF NOT EXISTS.
pg_get_indexdef(table_name, idx) ==
    Statement("create_index", FALSE, table_name, idx.index_name,
              [idx EXCEPT !.is_primary = FALSE])

\* The query without NOT i.indisprimary.
get_all_indexes_WithPrimary(cat) ==
    LET rows == UNION {{<<t, n>> : n \in DOMAIN cat.tables[t].indexes} :
                        t \in DOMAIN cat.tables}
    IN [n \in {r[2] : r \in rows} |->
            LET r == CHOOSE r \in rows : r[2] = n
            IN [index_name |-> n, table_name |-> r[1],
                definition |-> pg_get_indexdef(r[1], cat.tables[r[1]].indexes[n])]]

\* dict index_name -> row, for the indexes that are not primary
get_all_indexes(cat) ==
    LET rows == UNION {{<<t, n>> : n \in {m \in DOMAIN cat.tables[t].indexes :
                                            ~cat.tables[t].indexes[m].is_primary}} :
                        t \in DOMAIN cat.tables}
    IN [n \in {r[2] : r \in rows} |->
            LET r == CHOOSE r \in rows : r[2] = n
            IN [index_name |-> n, table_name |-> r[1],
                definition |-> pg_get_indexdef(r[1], cat.tables[r[1]].indexes[n])]]

\* main, lines 38-42
SyncGetUAT ==
    /\ pc = "start"
    /\ pc' = "sync_uat_read"
    /\ locals' = [locals EXCEPT !.uat_indexes = get_all_indexes(db.UAT)]
    /\ UNCHANGED <<db, edits, uat_schema, prod_schema, uat_cols, prod_cols, report,
                   summary>>

\* main, lines 44-53: missing is kept as the list the loop will go through,
\* sorted(missing)
SyncGetPROD ==
    /\ pc = "sync_uat_read"
    /\ pc' = "syncing"
    /\ LET prod_indexes == get_all_indexes(db.PROD)
       IN locals' = [locals EXCEPT
                        !.prod_indexes = prod_indexes,
                        !.missing = Sorted(OnlyIn(DOMAIN locals.uat_indexes,
                                                  DOMAIN prod_indexes)),
                        !.success = 0, !.failed = 0]
    /\ UNCHANGED <<db, edits, uat_schema, prod_schema, uat_cols, prod_cols, report,
                   summary>>

\* main, lines 55-75: one turn of the loop
SyncCreateIndex ==
    /\ pc = "syncing"
    /\ locals.missing # <<>>
    /\ LET idx == locals.uat_indexes[Head(locals.missing)]
           res == Execute(db.PROD, idx.definition)
           counted == res.error = "" \/ AlreadyExists(res.error)
       IN /\ db' = [db EXCEPT !.PROD = res.cat]
          /\ locals' = [locals EXCEPT
                            !.missing = Tail(@),
                            !.out = Append(@, idx.definition),
                            !.success = IF counted THEN @ + 1 ELSE @,
                            !.failed = IF counted THEN @ ELSE @ + 1]
    /\ UNCHANGED <<edits, pc, uat_schema, prod_schema, uat_cols, prod_cols, report,
                   summary>>

\* main, lines 77-82
SyncEnd ==
    /\ pc = "syncing"
    /\ locals.missing = <<>>
    /\ pc' = "synced"
    /\ UNCHANGED <<db, edits, uat_schema, prod_schema, uat_cols, prod_cols, report,
                   summary, locals>>

(***************************************************************************)
(* get-migration-details.py                                                *)
(***************************************************************************)

\* The row of the column, or None when there is none.
get_column_details(cat, table_name, column_name) ==
    IF table_name \in DOMAIN cat.tables
            /\ column_name \in ColumnNames(cat.tables[table_name])
    THEN get_columns(cat, table_name)[column_name]
    ELSE None

\* The definition of the index of that name, primary or not, or None.
get_index_definition(cat, index_name) ==
    LET T == {t \in DOMAIN cat.tables : index_name \in DOMAIN cat.tables[t].indexes}
    IN IF T = {} THEN None
       ELSE LET t == CHOOSE t \in T : TRUE
            IN pg_get_indexdef(t, cat.tables[t].indexes[index_name])

\* The rows of the columns of the table in ordinal order.
get_table_ddl(cat, table_name) ==
    IF table_name \in DOMAIN cat.tables THEN cat.tables[table_name].columns ELSE <<>>

\* main, lines 91-93: udt_name, or varchar(n) when the column has a maximum length
TypeStr(col) ==
    IF col.character_maximum_length # None
    THEN <<"varchar", col.character_maximum_length[1]>>
    ELSE <<col.udt_name>>

\* The column type the server makes of the text of a type.
TypeOf(type_str) ==
    IF Len(type_str) = 2
    THEN CHOOSE ty \in DOMAIN Types :
            /\ Types[ty].udt_name = "varchar"
            /\ Types[ty].character_maximum_length = <<type_str[2]>>
    ELSE CHOOSE ty \in DOMAIN Types :
            /\ Types[ty].udt_name = type_str[1]
            /\ Types[ty].character_maximum_length = None

\* main, lines 88-94: ALTER TABLE table ADD COLUMN column type nullable default;
\* the statement carries the column the server will make of that text.
AddColumnLine(table, column, col) ==
    LET nullable == IF col.is_nullable = "YES" THEN "NULL" ELSE "NOT NULL"
        default == IF col.column_default # None THEN col.column_default ELSE None
        type_str == TypeStr(col)
    IN Statement("add_column", FALSE, table, column,
                 MkColumn(column, TypeOf(type_str),
                          IF nullable = "NULL" THEN "YES" ELSE "NO", default))

\* The literal lists of main, with the names of this model: lines 80-83, 101-103,
\* 115-123, 137.
columns_to_add == <<<<"users", "verified">>, <<"users", "name">>>>

indexes_to_add == <<"idx_a">>

uat_only_columns == <<<<"users", "name">>>>

uat_only_tables == <<"posts">>

\* A line of sections 3 and 4, which print details and no statement.
Note(table, name) == Statement("note", FALSE, table, name, <<>>)

\* main, lines 64-153: everything it prints, in order
get_migration_details(uat, prod) ==
    LET Col(k) == get_column_details(prod, columns_to_add[k][1], columns_to_add[k][2])
        Idx(k) == get_index_definition(prod, indexes_to_add[k])
        UCol(k) == get_column_details(uat, uat_only_columns[k][1], uat_only_columns[k][2])
    IN Flatten([k \in DOMAIN columns_to_add |->
            IF Col(k) # None
            THEN <<AddColumnLine(columns_to_add[k][1], columns_to_add[k][2], Col(k))>>
            ELSE <<>>])
       \o Flatten([k \in DOMAIN indexes_to_add |->
            IF Idx(k) # None THEN <<Idx(k)>> ELSE <<>>])
       \o Flatten([k \in DOMAIN uat_only_columns |->
            IF UCol(k) # None
            THEN <<Note(uat_only_columns[k][1], uat_only_columns[k][2])>>
            ELSE <<>>])
       \o Flatten([k \in DOMAIN uat_only_tables |->
            LET cols == get_table_ddl(uat, uat_only_tables[k])
            IN <<Note(uat_only_tables[k], "")>>
               \o [j \in DOMAIN cols |-> Note(uat_only_tables[k], cols[j].column_name)]])

\* main
GetMigrationDetails ==
    /\ pc = "start"
    /\ pc' = "details_done"
    /\ locals' = [locals EXCEPT !.out = get_migration_details(db.UAT, db.PROD)]
    /\ UNCHANGED <<db, edits, uat_schema, prod_schema, uat_cols, prod_cols, report,
                   summary>>

(***************************************************************************)
(* Properties                                                              *)
(***************************************************************************)

CompareDone == pc = "done"

DeepDone == pc = "deep_done"

\* What deep-schema-compare compares: the result of each of its catalog queries.
DeepSnapshot(cat) ==
    [columns     |-> get_all_columns_detailed(cat),
     constraints |-> get_all_constraints(cat),
     sequences   |-> get_sequences(cat),
     views       |-> get_views(cat),
     functions   |-> get_functions(cat),
     triggers    |-> get_triggers(cat)]

\* The number of lines of the report for one object and kind.
Count(r, category, key, kind) ==
    Cardinality({i \in DOMAIN r :
        r[i].category = category /\ r[i].object_key = key /\ r[i].kind = kind})

MissingKeys(r, kind) ==
    {<<r[i].category, r[i].object_key>> : i \in {j \in DOMAIN r : r[j].kind = kind}}

Mismatches(r) ==
    {<<r[i].category, r[i].object_key, r[i].attr, r[i].left_value, r[i].right_value>> :
        i \in {j \in DOMAIN r : r[j].kind = "attribute_mismatch"}}

Swapped(m) == {<<x[1], x[2], x[3], x[5], x[4]>> : x \in m}

\* The canonical signature of an index: sorted column list, uniqueness, method.
Signature(idx) == <<Sorted(Range(idx.columns)), idx.is_unique, idx.index_type>>

\* C1: for a table on both sides, an index only on the left and an index only on
\* the right that have the same canonical signature, each the only index of that
\* signature on its side, are reported neither as missing_in_right nor as
\* missing_in_left.
C1_IndexCanonicalization ==
    CompareDone =>
        \A t \in DOMAIN uat_schema.tables \cap DOMAIN prod_schema.tables :
            LET L == uat_schema.tables[t].indexes
                R == prod_schema.tables[t].indexes
            IN \A i \in DOMAIN L \ DOMAIN R, j \in DOMAIN R \ DOMAIN L :
                (/\ Signature(L[i]) = Signature(R[j])
                 /\ \A k \in DOMAIN L : Signature(L[k]) = Signature(L[i]) => k = i
                 /\ \A k \in DOMAIN R : Signature(R[k]) = Signature(R[j]) => k = j)
                => /\ Count(report, "index", <<t, i>>, "missing_in_right") = 0
                   /\ Count(report, "index", <<t, j>>, "missing_in_left") = 0

\* C2: when the two snapshots are equal the report has no line, in any category.
C2_Reflexivity ==
    /\ (CompareDone /\ uat_schema = prod_schema) => report = <<>>
    /\ (DeepDone /\ DeepSnapshot(db.UAT) = DeepSnapshot(db.PROD)) => report = <<>>

\* Equal snapshots of catalogs that are no longer the initial ones.
C2_Witness ==
    /\ CompareDone
    /\ uat_schema = prod_schema
    /\ uat_schema # get_full_schema(BaseCatalog)

\* C3: the keys diff(A,B) reports missing_in_left are the keys diff(B,A) reports
\* missing_in_right, and the two report the same attribute mismatches with the
\* left and right values swapped.
C3_Symmetry ==
    /\ CompareDone =>
        \A r \in compare_schemas(prod_schema, uat_schema) :
            /\ MissingKeys(report, "missing_in_left") = MissingKeys(r, "missing_in_right")
            /\ MissingKeys(report, "missing_in_right") = MissingKeys(r, "missing_in_left")
            /\ Mismatches(report) = Swapped(Mismatches(r))
    /\ DeepDone =>
        \A r \in deep_main(db.PROD, db.UAT) :
            /\ MissingKeys(report, "missing_in_left") = MissingKeys(r, "missing_in_right")
            /\ MissingKeys(report, "missing_in_right") = MissingKeys(r, "missing_in_left")
            /\ Mismatches(report) = Swapped(Mismatches(r))

\* A report with a key missing on each side and an attribute mismatch.
C3_Witness ==
    /\ CompareDone
    /\ MissingKeys(report, "missing_in_left") # {}
    /\ MissingKeys(report, "missing_in_right") # {}
    /\ Mismatches(report) # {}


Rank(n) == CHOOSE i \in DOMAIN NameOrder : NameOrder[i] = n

AttrOrder == <<"", "default", "nullable", "primary_keys", "type", "values">>

AttrRank(a) == CHOOSE i \in DOMAIN AttrOrder : AttrOrder[i] = a

\* Lexicographic order of object keys (tuples of names), a prefix first.
RECURSIVE KeyLess(_, _)
KeyLess(k1, k2) ==
    IF k2 = <<>> THEN FALSE
    ELSE IF k1 = <<>> THEN TRUE
    ELSE IF Head(k1) # Head(k2) THEN Rank(Head(k1)) < Rank(Head(k2))
    ELSE KeyLess(Tail(k1), Tail(k2))

\* e1 may precede e2 in the order by object_key, then attribute name.
InOrder(e1, e2) ==
    \/ KeyLess(e1.object_key, e2.object_key)
    \/ /\ e1.object_key = e2.object_key
       /\ AttrRank(e1.attr) <= AttrRank(e2.attr)

OfCategory(r, category) ==
    LET Is(e) == e.category = category IN SelectSeq(r, Is)

Categories ==
    {"table", "column", "primary_key", "index", "enum", "constraint", "sequence",
     "view", "function", "trigger"}

\* C4: within each category the lines are in lexicographic order of object_key,
\* then attribute name, and the inputs determine the sequence of lines: it is the
\* only one compare_schemas can print for these two snapshots.
C4_Determinism ==
    CompareDone =>
        /\ \A c \in Categories :
            LET r == OfCategory(report, c)
            IN \A i, j \in DOMAIN r : i < j => InOrder(r[i], r[j])
        /\ compare_schemas(uat_schema, prod_schema) = {report}

\* The missing_* lines of one category whose key sets are left and right: one
\* missing_in_right line per key only in left, one missing_in_left line per key only
\* in right, none for any other key.
ExactlyMissing(r, category, left, right) ==
    \A k \in left \cup right \cup {e.object_key : e \in Range(OfCategory(r, category))} :
        /\ Count(r, category, k, "missing_in_right") =
                (IF k \in left /\ k \notin right THEN 1 ELSE 0)
        /\ Count(r, category, k, "missing_in_left") =
                (IF k \in right /\ k \notin left THEN 1 ELSE 0)

\* The keys <<table, name>> of the objects of the tables both sides have.
Nested(schema, other, field) ==
    UNION {{<<t, n>> : n \in DOMAIN schema.tables[t][field]} :
                t \in DOMAIN schema.tables \cap DOMAIN other.tables}

NestedColumns(cols, other) ==
    UNION {{<<t, c>> : c \in DOMAIN cols[t]} : t \in DOMAIN cols \cap DOMAIN other}

Flip(n) == IF n = "YES" THEN "NO" ELSE "YES"

\* The column dict right is the column dict left with column v added and the
\* nullability of column c changed, and nothing else.
AddedAndNullable(left, right, v, c) ==
    /\ v \notin DOMAIN left
    /\ c \in DOMAIN left
    /\ DOMAIN right = DOMAIN left \cup {v}
    /\ \A d \in DOMAIN left :
        right[d] = IF d = c THEN [left[d] EXCEPT !.is_nullable = Flip(@)] ELSE left[d]

\* Scenario A over the snapshots of compare-db-schemas: table t differs by the
\* added column v and the nullability of c, everything else is equal.
ScenarioA(L, R, t, v, c) ==
    /\ DOMAIN L.tables = DOMAIN R.tables
    /\ t \in DOMAIN L.tables
    /\ L.enums = R.enums
    /\ \A u \in DOMAIN L.tables \ {t} : L.tables[u] = R.tables[u]
    /\ L.tables[t].primary_keys = R.tables[t].primary_keys
    /\ L.tables[t].foreign_keys = R.tables[t].foreign_keys
    /\ L.tables[t].indexes = R.tables[t].indexes
    /\ AddedAndNullable(L.tables[t].columns, R.tables[t].columns, v, c)

\* Scenario A over what deep-schema-compare reads.
DeepScenarioA(L, R, t, v, c) ==
    /\ DOMAIN L.columns = DOMAIN R.columns
    /\ t \in DOMAIN L.columns
    /\ \A u \in DOMAIN L.columns \ {t} : L.columns[u] = R.columns[u]
    /\ \A u \in {"constraints", "sequences", "views", "functions", "triggers"} :
            L[u] = R[u]
    /\ v \notin DOMAIN L.columns[t]
    /\ c \in DOMAIN L.columns[t]
    /\ DOMAIN R.columns[t] = DOMAIN L.columns[t] \cup {v}
    /\ \A d \in DOMAIN L.columns[t] :
        R.columns[t][d] = IF d = c
                          THEN [L.columns[t][d] EXCEPT !.is_nullable = Flip(@)]
                          ELSE L.columns[t][d]

\* The report is the missing_in_left line of column v and the nullable mismatch
\* line of column c with the two values, and nothing else.
ScenarioAReport(r, t, v, c, left_nullable) ==
    /\ Len(r) = 2
    /\ Count(r, "column", <<t, v>>, "missing_in_left") = 1
    /\ \E i \in DOMAIN r :
        r[i] = Entry("column", <<t, c>>, "attribute_mismatch", "nullable",
                     <<left_nullable>>, <<Flip(left_nullable)>>)

ColumnAttrs ==
    {"data_type", "udt_name", "is_nullable", "character_maximum_length",
     "numeric_precision", "numeric_scale", "column_default"}

CommonColumns(L, R) ==
    UNION {{<<t, c>> : c \in DOMAIN L.tables[t].columns \cap DOMAIN R.tables[t].columns} :
                t \in DOMAIN L.tables \cap DOMAIN R.tables}

\* C7: for a column on both sides the number of attribute_mismatch lines is the
\* number of compared attributes whose values differ.
C7_OneEntryPerAttribute ==
    CompareDone =>
        \A k \in CommonColumns(uat_schema, prod_schema) :
            LET l == uat_schema.tables[k[1]].columns[k[2]]
                r == prod_schema.tables[k[1]].columns[k[2]]
            IN Count(report, "column", k, "attribute_mismatch")
                    = Cardinality({a \in ColumnAttrs : l[a] # r[a]})

\* Lower case of a character.
Lower(ch) == IF ch = "X" THEN "x" ELSE ch

\* A default expression with its white space removed and in lower case; None
\* stays None.
Normalize(d) ==
    LET NotSpace(ch) == ch # " "
        t == SelectSeq(d, NotSpace)
    IN [i \in DOMAIN t |-> Lower(t[i])]

DefaultLines(r, k) ==
    Cardinality({i \in DOMAIN r :
        r[i].category = "column" /\ r[i].object_key = k /\ r[i].attr = "default"})

\* C8: for a column on both sides there is no default mismatch line when the two
\* default expressions are equal after normalisation, and one when they are not.
C8_NormalizedDefaults ==
    CompareDone =>
        \A k \in CommonColumns(uat_schema, prod_schema) :
            LET l == uat_schema.tables[k[1]].columns[k[2]].column_default
                r == prod_schema.tables[k[1]].columns[k[2]].column_default
            IN DefaultLines(report, k) = (IF Normalize(l) = Normalize(r) THEN 0 ELSE 1)

\* C9: for an enum on both sides there is exactly one attribute_mismatch line when
\* the label lists in sort order differ as sequences, a reordering of the same
\* labels included, and none when they are equal.
C9_EnumOrder ==
    CompareDone =>
        \A e \in DOMAIN db.UAT.enums \cap DOMAIN db.PROD.enums :
            /\ Count(report, "enum", <<e>>, "attribute_mismatch")
                    = (IF db.UAT.enums[e] # db.PROD.enums[e] THEN 1 ELSE 0)
            /\ \A i \in DOMAIN report :
                (report[i].category = "enum" /\ report[i].object_key = <<e>>)
                => /\ report[i].kind = "attribute_mismatch"
                   /\ report[i].left_value = db.UAT.enums[e]
                   /\ report[i].right_value = db.PROD.enums[e]

\* The same labels in two different orders, reported once.
C9_Witness ==
    /\ CompareDone
    /\ "status" \in DOMAIN db.UAT.enums \cap DOMAIN db.PROD.enums
    /\ Range(db.UAT.enums["status"]) = Range(db.PROD.enums["status"])
    /\ db.UAT.enums["status"] # db.PROD.enums["status"]
    /\ Count(report, "enum", <<"status">>, "attribute_mismatch") = 1

\* C10: for a table on both sides there is one primary-key mismatch line when the
\* primary keys of the two catalogs differ as sequences of columns in key order,
\* and none when they are equal.
C10_PrimaryKeyOrder ==
    CompareDone =>
        \A t \in DOMAIN db.UAT.tables \cap DOMAIN db.PROD.tables :
            Count(report, "primary_key", <<t>>, "attribute_mismatch")
                = (IF PrimaryKeyOf(db.UAT.tables[t]) # PrimaryKeyOf(db.PROD.tables[t])
                   THEN 1 ELSE 0)

\* The lines of the report about the foreign key n of table t.
ForeignKeyLines(r, t, n) ==
    {i \in DOMAIN r : /\ r[i].category \in {"foreign_key", "constraint"}
                      /\ r[i].object_key = <<t, n>>}

\* The foreign keys of table t whose name is on both sides with a different
\* referenced table or column.
RetargetedForeignKeys(L, R) ==
    {n \in DOMAIN L \cap DOMAIN R :
        \/ L[n].foreign_table_name # R[n].foreign_table_name
        \/ L[n].foreign_column_name # R[n].foreign_column_name}

\* C11: for a table on both sides, a foreign key whose name is on both sides and
\* whose referenced table or column differs has a line in the report, and a
\* foreign key whose name is on one side only has no line other than its own
\* missing_* line, whatever foreign keys the other side has on the same column.
C11_ForeignKeyIdentity ==
    (CompareDone \/ DeepDone) =>
        \A t \in DOMAIN db.UAT.tables \cap DOMAIN db.PROD.tables :
            LET L == get_foreign_keys(db.UAT, t)
                R == get_foreign_keys(db.PROD, t)
            IN /\ \A n \in RetargetedForeignKeys(L, R) :
                    ForeignKeyLines(report, t, n) # {}
               /\ \A n \in (DOMAIN L \ DOMAIN R) \cup (DOMAIN R \ DOMAIN L) :
                    \A i \in ForeignKeyLines(report, t, n) :
                        report[i].kind \in {"missing_in_left", "missing_in_right"}


\* C12: when sync-indexes has executed the statement of every index that UAT has
\* and PROD lacks, a new snapshot of PROD lacks no index of UAT: the difference
\* the statements were made from is empty.
C12_RoundTrip ==
    pc = "synced" =>
        OnlyIn(DOMAIN get_all_indexes(db.UAT), DOMAIN get_all_indexes(db.PROD)) = {}

\* The catalog after the statements of seq have been executed one after the other,
\* and the number of them that raised an error.
RECURSIVE ApplyAll(_, _)
ApplyAll(cat, seq) ==
    IF seq = <<>> THEN [cat |-> cat, errors |-> 0]
    ELSE LET res == Execute(cat, Head(seq))
             rest == ApplyAll(res.cat, Tail(seq))
         IN [cat |-> rest.cat,
             errors |-> rest.errors + (IF res.error = "" THEN 0 ELSE 1)]

\* When the sequence runs without error on the catalog, it also runs without error,
\* and to the same catalog, after any prefix of it has been applied, the whole of
\* it included.
Idempotent(cat, seq) ==
    LET once == ApplyAll(cat, seq)
    IN once.errors = 0 =>
        \A k \in 0..Len(seq) :
            ApplyAll(ApplyAll(cat, SubSeq(seq, 1, k)).cat, seq)
                = [cat |-> once.cat, errors |-> 0]

\* The statements among the lines get-migration-details prints.
Statements(out) ==
    LET IsStatement(s) == s.kind # "note" IN SelectSeq(out, IsStatement)

\* C13: every sequence of statements a script emits is idempotent on the catalog
\* it is meant for: the statements sync-indexes is about to execute on PROD, the
\* list run_migrations executes on PROD, the statements get-migration-details
\* prints for UAT.
C13_Idempotency ==
    /\ pc = "syncing" =>
        Idempotent(db.PROD, [k \in DOMAIN locals.missing |->
                                locals.uat_indexes[locals.missing[k]].definition])
    /\ (pc = "migrating" /\ locals.i = 1) => Idempotent(db.PROD, MIGRATIONS)
    /\ pc = "details_done" => Idempotent(db.UAT, Statements(locals.out))

\* Statement j needs what statement i makes: an index statement or a statement
\* on a constraint of a column (DROP NOT NULL) needs the tables, a statement on a
\* constraint of a column needs the columns.
Needs(later, earlier) ==
    \/ /\ earlier.kind = "create_table"
       /\ later.kind \in {"create_index", "drop_not_null"}
    \/ /\ earlier.kind = "add_column"
       /\ later.kind = "drop_not_null"

DiffOrSynthesisStep ==
    \/ GetFullSchemaUAT \/ GetFullSchemaPROD \/ CompareSchemas
    \/ DeepColumns \/ DeepConstraints \/ DeepSequences \/ DeepViews
    \/ DeepFunctions \/ DeepTriggers \/ DeepSummary
    \/ SyncGetUAT \/ SyncGetPROD \/ SyncCreateIndex \/ SyncEnd
    \/ GetMigrationDetails

\* C15: no step of a program that diffs or synthesizes changes either database,
\* nor a snapshot once it has been read.
C15_SideEffectFree ==
    [][DiffOrSynthesisStep =>
        /\ db' = db
        /\ pc = "syncing" => /\ locals'.uat_indexes = locals.uat_indexes
                             /\ locals'.prod_indexes = locals.prod_indexes
        /\ pc = "prod_read" => /\ uat_schema' = uat_schema
                               /\ prod_schema' = prod_schema]_vars

\* The statement has a precondition check beside its ALTER.
IsTwoPart(s) == "precondition" \in DOMAIN s

\* The statement carries requires_manual_review: true.
RequiresManualReview(s) ==
    "requires_manual_review" \in DOMAIN s /\ s.requires_manual_review

\* A column that the table has before and after has another nullability.
NullabilityChanged(before, after) ==
    \E t \in DOMAIN before.tables \cap DOMAIN after.tables :
        \E c \in ColumnNames(before.tables[t]) \cap ColumnNames(after.tables[t]) :
            get_columns(before, t)[c].is_nullable # get_columns(after, t)[c].is_nullable

\* C16: a step of run_migrations changes the nullability of a column only by a
\* statement that has a precondition check and carries requires_manual_review.
C16_ManualReview ==
    [][(ExecuteMigration /\ NullabilityChanged(db.PROD, db'.PROD)) =>
            /\ IsTwoPart(MIGRATIONS[locals.i])
            /\ RequiresManualReview(MIGRATIONS[locals.i])]_vars

\* The categories the tool lists as a whole, beside tables and columns.
OptionalCategoryQueries == {"get_sequences", "get_views", "get_functions", "get_triggers"}

\* C17: the failure of the query listing a whole category (sequences, views,
\* functions, triggers) never ends the run: the program is never stopped by
\* such a query.
C17_CategoryFailureTolerated ==
    pc = "crashed" => locals.error \notin OptionalCategoryQueries

\* Every table of the catalog is in the snapshot with all of its columns.
CompleteColumns(schema, cat) ==
    \A t \in get_tables(cat) :
        /\ t \in DOMAIN schema.tables
        /\ schema.tables[t].columns = get_columns(cat, t)

WellFormed(schema) ==
    \A t \in DOMAIN schema.tables :
        Range(schema.tables[t].primary_keys) \subseteq DOMAIN schema.tables[t].columns

\* C19: compare_schemas produces no difference line from a snapshot that is
\* malformed (a primary-key column that is not a column of its table).
C19_NoDiffFromMalformed ==
    (pc = "done" /\ report # <<>>) => WellFormed(uat_schema) /\ WellFormed(prod_schema)

\* The positions of the two tools at which an introspection query of either
\* side has not been issued yet.
IntrospectionPending ==
    pc \in {"start", "uat_read", "constraints", "sequences", "views", "functions", "triggers"}

\* C20: difference lines exist only when every introspection query of both
\* sides has been issued and answered.
C20_DiffAfterSnapshots ==
    report # <<>> => ~IntrospectionPending

\* Every line compare_schemas prints is a difference of the schemas; it prints
\* no row-count notice.
Informational(e) == e.category = "row_count"

\* C21: when compare-db-schemas has ended, what it gives to the caller to
\* decide on (its exit status) tells that there are blocking differences if
\* and only if the report has an entry that is not informational.
C21_BlockingDifferences ==
    pc = "done" =>
        (ExitStatus # 0 <=> \E i \in DOMAIN report : ~Informational(report[i]))

\* The lines of the file as it is on disk, each with its line feed.
InputLines(raw) == SplitLines(raw)

\* The first character of the line that is not whitespace is not '#'.
NotComment(line) ==
    \A i \in DOMAIN line :
        (line[i] \notin Whitespace /\ \A j \in 1..(i - 1) : line[j] \in Whitespace)
            => line[i] # "#"

\* C22: the output file holds exactly the input lines that are not comments, in
\* order and unmodified, and remove_comments removes nothing from its output.
C22_RemoveComments ==
    pc = "env_done" =>
        /\ locals.env_copy = writelines(SelectSeq(InputLines(locals.env_local), NotComment))
        /\ remove_comments(locals.env_copy) = locals.env_copy

\* Two or more indexes of one side of the table have the signature.
Ambiguous(sig, L, R) ==
    \/ Cardinality({k \in DOMAIN L : Signature(L[k]) = sig}) > 1
    \/ Cardinality({k \in DOMAIN R : Signature(R[k]) = sig}) > 1

\* Index i of X has no partner in Y: by signature, or by name among the indexes
\* of the same signature when the signature is ambiguous.
Unmatched(X, Y, i, L, R) ==
    LET sig == Signature(X[i])
    IN IF Ambiguous(sig, L, R)
       THEN ~(i \in DOMAIN Y /\ Signature(Y[i]) = sig)
       ELSE \A j \in DOMAIN Y : Signature(Y[j]) # sig

\* C23: the indexes of a table on both sides are matched by signature, and by
\* name only among the indexes of a signature that two indexes of one side
\* share: an index is reported missing exactly when it has no such partner.
C23_NameOnlyAsTiebreak ==
    CompareDone =>
        \A t \in DOMAIN uat_schema.tables \cap DOMAIN prod_schema.tables :
            LET L == uat_schema.tables[t].indexes
                R == prod_schema.tables[t].indexes
            IN /\ \A i \in DOMAIN L :
                    Count(report, "index", <<t, i>>, "missing_in_right") > 0
                        <=> Unmatched(L, R, i, L, R)
               /\ \A j \in DOMAIN R :
                    Count(report, "index", <<t, j>>, "missing_in_left") > 0
                        <=> Unmatched(R, L, j, L, R)

\* C24: in the summary of deep-schema-compare the lines of the columns to add
\* to one table come in the order of their ordinal_position in UAT, the side
\* the columns are taken from.
C24_OrdinalOrder ==
    DeepDone =>
        \A i, j \in DOMAIN summary :
            (/\ i < j
             /\ summary[i].statement = "add_column"
             /\ summary[j].statement = "add_column"
             /\ summary[i].table = summary[j].table)
            => uat_cols[summary[i].table][summary[i].column].ordinal_position
                < uat_cols[summary[j].table][summary[j].column].ordinal_position

Present(cat, s) ==
    IF s.kind = "create_table" THEN s.name \in DOMAIN cat.tables
    ELSE /\ s.table \in DOMAIN cat.tables
         /\ IF s.kind = "add_column" THEN s.name \in ColumnNames(cat.tables[s.table])
            ELSE IF s.kind = "create_index" THEN s.name \in DOMAIN cat.tables[s.table].indexes
            ELSE /\ s.name \in ColumnNames(cat.tables[s.table])
                 /\ get_columns(cat, s.table)[s.name].is_nullable = "YES"

C27_SuccessMeansPresent ==
    [][/\ (ExecuteMigration /\ locals'.success = locals.success + 1)
            => Present(db'.PROD, MIGRATIONS[locals.i])
       /\ (RunMigrationsEnd /\ locals.failed = 0)
            => \A k \in DOMAIN MIGRATIONS : Present(db.PROD, MIGRATIONS[k])]_vars

\* The names of the indexes of the catalog that are not primary.
NonPrimaryIndexNames(cat) ==
    {n \in IndexNamesIn(cat) :
        \E t \in DOMAIN cat.tables :
            n \in DOMAIN cat.tables[t].indexes /\ ~cat.tables[t].indexes[n].is_primary}

\* The statements executed so far and the names still to go are, in ascending
\* order, the non-primary index names of UAT that were no non-primary index
\* names of PROD when it was read; each statement creates an index, and each
\* was counted once.
SyncAccount ==
    pc \in {"syncing", "synced"} =>
        /\ [k \in DOMAIN locals.out |-> locals.out[k].name] \o locals.missing
            = Sorted(NonPrimaryIndexNames(db.UAT) \ DOMAIN locals.prod_indexes)
        /\ DOMAIN locals.prod_indexes \subseteq IndexNamesIn(db.PROD)
        /\ \A k \in DOMAIN locals.out : locals.out[k].kind = "create_index"
        /\ locals.success + locals.failed = Len(locals.out)
        /\ pc = "synced" => locals.missing = <<>>

C29_Converges ==
    (pc = "synced" /\ locals.failed = 0) =>
        NonPrimaryIndexNames(db.UAT) \subseteq NonPrimaryIndexNames(db.PROD)

\* C30: fix-duplicates deletes at most one row of users; it deletes one only
\* when two or more rows have the e-mail, the deleted row is one of them with
\* the least created_at, and by then a delete has been attempted on each of the
\* seven dependent tables, raised or not; when fewer than two rows have the
\* e-mail no row of users or of a dependent table is deleted.
C30_DeletesOldestOnly ==
    LET gone == locals.users0 \ locals.users
        matching == {r \in locals.users0 : r.match}
    IN /\ locals.users \subseteq locals.users0
       /\ locals.deps \subseteq locals.deps0
       /\ Cardinality(gone) <= 1
       /\ \A r \in gone :
            /\ Cardinality(matching) >= 2
            /\ r \in matching
            /\ \A m \in matching : r.created_at <= m.created_at
            /\ locals.i = Len(DependentTables) + 1
       /\ Cardinality(matching) < 2 => (locals.users = locals.users0
                                        /\ locals.deps = locals.deps0)

\* The run has ended with the older row deleted although a delete on a
\* dependent table had raised, and a newer row of the e-mail is kept.
C30_Witness ==
    /\ pc = "fixed"
    /\ Cardinality(locals.users0 \ locals.users) = 1
    /\ locals.error = "DELETE raised"
    /\ \E r \in locals.users : r.match /\ r.created_at = 2

Next ==
    \/ GetFullSchemaUAT
    \/ GetFullSchemaPROD
    \/ CompareSchemas
    \/ DeepColumns
    \/ DeepConstraints
    \/ DeepSequences
    \/ DeepViews
    \/ DeepFunctions
    \/ DeepTriggers
    \/ DeepSummary
    \/ \E s \in Sides, t \in TableNames : CreateTable(s, t)
    \/ \E s \in Sides, t \in TableNames : DropTable(s, t)
    \/ \E s \in Sides, t \in TableNames, c \in DOMAIN NewColumns : AddColumn(s, t, c)
    \/ \E s \in Sides, t \in TableNames, c \in {"id", "email"} : DropColumn(s, t, c)
    \/ \E s \in Sides, t \in TableNames, c \in {"id", "email"} : AlterNullable(s, t, c)
    \/ \E s \in Sides, t \in TableNames, ty \in AlterTypes : AlterColumnType(s, t, "email", ty)
    \/ \E s \in Sides, t \in TableNames, d \in DefaultExprs \cup {None} :
            SetDefault(s, t, "email", d)
    \/ \E s \in Sides, t \in TableNames, pk \in PrimaryKeyDefs : SetPrimaryKey(s, t, pk)
    \/ \E s \in Sides, t \in TableNames, n \in IndexNames, d \in IndexDefs :
            CreateIndex(s, t, n, d)
    \/ \E s \in Sides, t \in TableNames, n \in IndexNames : DropIndex(s, t, n)
    \/ \E s \in Sides, e \in {"status"}, i \in 1..3 : AddEnumValue(s, e, i)
    \/ \E s \in Sides, e \in DOMAIN NewEnums : CreateType(s, e)
    \/ \E s \in Sides, e \in {"status", "role"} : DropType(s, e)
    \/ \E s \in Sides, n \in DOMAIN ConstraintRows : AddConstraint(s, n)
    \/ \E s \in Sides, n \in DOMAIN ConstraintRows : DropConstraint(s, n)
    \/ \E s \in Sides, cat \in OtherCategories :
            \E rows \in OtherObjects[cat] : CreateObject(s, cat, rows)
    \/ \E s \in Sides, cat \in OtherCategories :
            \E rows \in OtherObjects[cat] : DropObject(s, cat, rows)

Spec == Init /\ [][Next]_vars

(***************************************************************************)
(* The comparison tools over catalogs that both have the two tables, so    *)
(* that foreign keys between them can be declared on either side.          *)
(***************************************************************************)

TwoTableCatalog == WithTable(BaseCatalog, "posts", NewTable("posts"))

InitFK ==
    /\ db = [s \in Sides |-> TwoTableCatalog]
    /\ edits = 0
    /\ pc = "start"
    /\ uat_schema = NoSchema
    /\ prod_schema = NoSchema
    /\ uat_cols = <<>>
    /\ prod_cols = <<>>
    /\ report = <<>>
    /\ summary = <<>>
    /\ locals = NoLocals

NextFK ==
    \/ GetFullSchemaUAT
    \/ GetFullSchemaPROD
    \/ CompareSchemas
    \/ DeepColumns
    \/ DeepConstraints
    \/ DeepSequences
    \/ DeepViews
    \/ DeepFunctions
    \/ DeepTriggers
    \/ DeepSummary
    \/ \E s \in Sides, n \in DOMAIN ConstraintRows : AddConstraint(s, n)
    \/ \E s \in Sides, n \in DOMAIN ConstraintRows : DropConstraint(s, n)
    \/ \E s \in Sides, t \in TableNames : DropTable(s, t)

SpecFK == InitFK /\ [][NextFK]_vars

(***************************************************************************)
(* The comparison tools when a query can fail                              *)
(***************************************************************************)

NextErr ==
    \/ GetFullSchemaUAT
    \/ GetFullSchemaPROD
    \/ CompareSchemas
    \/ DeepColumns
    \/ DeepConstraints
    \/ DeepSequences
    \/ DeepViews
    \/ DeepFunctions
    \/ DeepTriggers
    \/ DeepSummary
    \/ \E s \in Sides, q \in SchemaQueries, t \in TableNames \cup {""} :
            GetFullSchemaRaises(s, q, t)
    \/ \E s \in Sides : DeepColumnsRaises(s)
    \/ \E s \in Sides : DeepCategoryRaises(s)
    \/ \E s \in Sides, t \in TableNames : CreateTable(s, t)
    \/ \E s \in Sides, t \in TableNames : DropTable(s, t)
    \/ \E s \in Sides, t \in TableNames, c \in DOMAIN NewColumns : AddColumn(s, t, c)
    \/ \E s \in Sides, cat \in OtherCategories :
            \E rows \in OtherObjects[cat] : CreateObject(s, cat, rows)

ErrSpec == Init /\ [][NextErr]_vars

(***************************************************************************)
(* compare-db-schemas while another session alters the schemas              *)
(***************************************************************************)

NextRace ==
    \/ \E s \in Sides : BuildStart(s)
    \/ BuildColumns
    \/ BuildKeys
    \/ BuildEnd
    \/ CompareSchemas
    \/ \E s \in Sides, t \in TableNames : CreateTable(s, t)
    \/ \E s \in Sides, t \in TableNames, c \in DOMAIN NewColumns : AddColumn(s, t, c)
    \/ \E s \in Sides, t \in TableNames, c \in DOMAIN NewColumns : AddKeyColumn(s, t, c)
    \/ \E s \in Sides, t \in TableNames, c \in {"id", "email"} : AlterNullable(s, t, c)

RaceSpec == Init /\ [][NextRace]_vars

(***************************************************************************)
(* sync-indexes over catalogs that both start with the unique index idx_a   *)
(* on users(email)                                                          *)
(***************************************************************************)

IndexedCatalog ==
    WithTable(BaseCatalog, "users",
        [BaseCatalog.tables["users"] EXCEPT
            !.indexes = ("idx_a" :> MkIndex("idx_a", "btree", TRUE, FALSE, <<"email">>)) @@ @])

InitSync ==
    /\ db = [s \in Sides |-> IndexedCatalog]
    /\ edits = 0
    /\ pc = "start"
    /\ uat_schema = NoSchema
    /\ prod_schema = NoSchema
    /\ uat_cols = <<>>
    /\ prod_cols = <<>>
    /\ report = <<>>
    /\ summary = <<>>
    /\ locals = NoLocals

NextSync ==
    \/ SyncGetUAT
    \/ SyncGetPROD
    \/ SyncCreateIndex
    \/ SyncEnd
    \/ \E s \in Sides, t \in TableNames, n \in IndexNames, d \in IndexDefs :
            CreateIndex(s, t, n, d)
    \/ \E s \in Sides, t \in TableNames, n \in IndexNames : DropIndex(s, t, n)
    \/ \E s \in Sides, t \in TableNames, n \in IndexNames : PromoteIndex(s, t, n)
    \/ \E s \in Sides, t \in TableNames : CreateTable(s, t)

SyncSpec == InitSync /\ [][NextSync]_vars

(***************************************************************************)
(* fix-duplicates on every small content of users and its dependent tables  *)
(***************************************************************************)

\* The contents of users: for each id no row, a row of another e-mail, or a row
\* of the e-mail with one of the values of created_at.
UsersContents ==
    LET Options == {<<>>} \cup {<<FALSE, 1>>} \cup {<<TRUE, c>> : c \in CreatedAts}
    IN {{UserRow(id, f[id][1], f[id][2]) : id \in {u \in UserIds : f[u] # <<>>}} :
            f \in [UserIds -> Options]}

RECURSIVE SubsetsUpTo(_, _)
\* The subsets of S of at most n elements.
SubsetsUpTo(S, n) ==
    IF n = 0 THEN {{}}
    ELSE LET smaller == SubsetsUpTo(S, n - 1)
         IN smaller \cup {s \cup {x} : s \in smaller, x \in S}

InitFix ==
    /\ db = [s \in Sides |-> BaseCatalog]
    /\ edits = 0
    /\ pc = "start"
    /\ uat_schema = NoSchema
    /\ prod_schema = NoSchema
    /\ uat_cols = <<>>
    /\ prod_cols = <<>>
    /\ report = <<>>
    /\ summary = <<>>
    /\ \E u \in UsersContents :
        \E d \in SubsetsUpTo(Range(DependentTables) \X {r.id : r \in u},
                               MaxDependentRows) :
            \E b \in BOOLEAN :
                /\ locals = [NoLocals EXCEPT !.users = u, !.users0 = u,
                                             !.deps = d, !.deps0 = d,
                                             !.dup_billing = b]

NextFix ==
    \/ FixFindUsers
    \/ FixDeleteDependent
    \/ FixDeleteUser
    \/ FixRenameBilling
    \/ FixCreateIndexes

FixSpec == InitFix /\ [][NextFix]_vars

(***************************************************************************)
(* remove-env-comments on every small .env.local                           *)
(***************************************************************************)

InitEnv ==
    /\ db = [s \in Sides |-> BaseCatalog]
    /\ edits = 0
    /\ pc = "start"
    /\ uat_schema = NoSchema
    /\ prod_schema = NoSchema
    /\ uat_cols = <<>>
    /\ prod_cols = <<>>
    /\ report = <<>>
    /\ summary = <<>>
    /\ \E exists \in BOOLEAN :
        \E raw \in UNION {[1..n -> Chars] : n \in 0..MaxFileLen} :
            /\ ~exists => raw = <<>>
            /\ locals = [NoLocals EXCEPT !.env_exists = exists, !.env_local = raw]

NextEnv ==
    \/ RemoveComments
    \/ UseCopy

EnvSpec == InitEnv /\ [][NextEnv]_vars

(***************************************************************************)
(* The migration scripts, run after the two catalogs have drifted apart     *)
(***************************************************************************)

NextMig ==
    \/ RunMigrationsStart
    \/ ExecuteMigration
    \/ RunMigrationsEnd
    \/ SyncGetUAT
    \/ SyncGetPROD
    \/ SyncCreateIndex
    \/ SyncEnd
    \/ GetMigrationDetails
    \/ \E s \in Sides, t \in TableNames : CreateTable(s, t)
    \/ \E s \in Sides, t \in TableNames : DropTable(s, t)
    \/ \E s \in Sides, t \in TableNames, c \in DOMAIN NewColumns : AddColumn(s, t, c)
    \/ \E s \in Sides, t \in TableNames, c \in {"id", "email"} : DropColumn(s, t, c)
    \/ \E s \in Sides, t \in TableNames, c \in {"id", "email"} : AlterNullable(s, t, c)
    \/ \E s \in Sides, t \in TableNames, pk \in PrimaryKeyDefs : SetPrimaryKey(s, t, pk)
    \/ \E s \in Sides, t \in TableNames, n \in IndexNames, d \in IndexDefs :
            CreateIndex(s, t, n, d)
    \/ \E s \in Sides, t \in TableNames, n \in IndexNames : DropIndex(s, t, n)
    \/ \E s \in Sides, t \in TableNames, n \in IndexNames : PromoteIndex(s, t, n)

MigSpec == Init /\ [][NextMig]_vars

====
